---- MODULE Spec2Model ----
(***************************************************************************)
(* Gamerfeeds front end: the comment store (store/commentStore.ts) and the *)
(* two recursive helpers that keep its comment forest in step with the     *)
(* backend after a comment is created, edited or deleted.                  *)
(*                                                                         *)
(* A Comment is a record [id, parent_id, content, replies]; a forest is a  *)
(* sequence of Comments.  The node an edit returns carries no replies      *)
(* field, so a record may lack "replies", as a JavaScript object may.      *)
(* parent_id 0 stands for null (both are falsy in `!comment.parent_id`).   *)
(***************************************************************************)
EXTENDS Integers, Sequences, FiniteSets, Bags, TLC

VARIABLES
  comments,   \* CommentState.comments: the forest held by the store
  isLoading,  \* CommentState.isLoading
  error,      \* CommentState.error: NoError (null) or a message
  inflight,   \* the bag of the store's async calls that await fetch()
  server,     \* the backend: its forest and the next id it assigns
  call,       \* history, for the properties: the last use of a helper
              \* (SpecSync) or the adds that completed (SpecAdds)
  search,     \* SearchState: quickResults, isQuickSearching, quickSearchError
  timers,     \* the browser's pending timers (setTimeout / clearTimeout)
  timeout,    \* debounce's `let timeout`: the timer it set last
  now,        \* the clock, in milliseconds
  searching,  \* the bag of performQuickSearch calls that await fetch()
  inputQuery, \* SearchState.query: the text of the navigation bar's search box
  auth,       \* AuthState: token, userData, isAuthenticated, isLoading, error
  localStorage, \* the browser's localStorage: the items "token" and "userData"
  authCalls,  \* the bag of the auth store's async calls that await fetch()
  replyingTo, \* CommentsSection's state replyingTo: a comment id or null
  gameCarousel, \* GameCarousel: its props and its state
  newsCarousel, \* NewsCarousel: its props and its state
  pagination  \* Pagination: its props and its state

searchVars == <<search, timers, timeout, now, searching, inputQuery>>

authVars == <<auth, localStorage, authCalls>>

\* The state of the components.
uiVars == <<replyingTo, gameCarousel, newsCarousel, pagination>>

vars == <<comments, isLoading, error, inflight, server, call, searchVars,
          authVars, uiVars>>

(***************************************************************************)
(* Bounds.                                                                 *)
(***************************************************************************)
\* Comment ids are 1..MaxId: the backend creates at most MaxId comments.
MaxId == 3
\* At most MaxInFlight calls of the store are pending at a time.
MaxInFlight == 2
\* The helpers alone are driven with forests of the ids 1..MaxNodes.
MaxNodes == 3

\* parent_id: null
NullId == 0
\* updatedComment: null ("null means delete")
NullComment == [null |-> TRUE]
\* error: null
NoError == "null"

(***************************************************************************)
(* types/comment.ts                                                        *)
(***************************************************************************)
\* A Comment as the backend creates it: empty replies.
Comment(id, parent_id, content) ==
  [id |-> id, parent_id |-> parent_id, content |-> content, replies |-> <<>>]

\* `comment.replies` is defined
HasReplies(comment) == "replies" \in DOMAIN comment

(***************************************************************************)
(* commentStore.ts: the recursive helpers                                  *)
(***************************************************************************)
RECURSIVE updateCommentRecursive(_, _, _)
RECURSIVE reduceComments(_, _, _, _)
RECURSIVE reduceComments_DropLeaves(_, _, _, _)

\* A slip: the last `return [...acc, comment]` is lost, so a comment without
\* replies that is not the target is dropped.
reduceComments_DropLeaves(acc, cs, commentId, updatedComment) ==
  IF cs = <<>> THEN acc
  ELSE LET comment == Head(cs)
           next ==
             IF comment.id = commentId
             THEN IF updatedComment = NullComment
                  THEN acc
                  ELSE Append(acc, updatedComment)
             ELSE IF HasReplies(comment) /\ Len(comment.replies) > 0
                  THEN Append(acc,
                         [comment EXCEPT !.replies =
                            updateCommentRecursive(comment.replies, commentId,
                                                   updatedComment)])
                  ELSE acc
       IN reduceComments_DropLeaves(next, Tail(cs), commentId, updatedComment)

RECURSIVE reduceComments_ReplaceFirst(_, _, _, _)
\* A slip: `return [updatedComment, ...acc]`, so the updated comment moves to
\* the front of its sibling list.
reduceComments_ReplaceFirst(acc, cs, commentId, updatedComment) ==
  IF cs = <<>> THEN acc
  ELSE LET comment == Head(cs)
           next ==
             IF comment.id = commentId
             THEN IF updatedComment = NullComment
                  THEN acc
                  ELSE <<updatedComment>> \o acc
             ELSE IF HasReplies(comment) /\ Len(comment.replies) > 0
                  THEN Append(acc,
                         [comment EXCEPT !.replies =
                            updateCommentRecursive(comment.replies, commentId,
                                                   updatedComment)])
                  ELSE Append(acc, comment)
       IN reduceComments_ReplaceFirst(next, Tail(cs), commentId, updatedComment)

RECURSIVE reduceComments_OffByOne(_, _, _, _)
\* A slip: `comment.replies.length > 1`, so a single reply is not searched.
reduceComments_OffByOne(acc, cs, commentId, updatedComment) ==
  IF cs = <<>> THEN acc
  ELSE LET comment == Head(cs)
           next ==
             IF comment.id = commentId
             THEN IF updatedComment = NullComment
                  THEN acc
                  ELSE Append(acc, updatedComment)
             ELSE IF HasReplies(comment) /\ Len(comment.replies) > 1
                  THEN Append(acc,
                         [comment EXCEPT !.replies =
                            updateCommentRecursive(comment.replies, commentId,
                                                   updatedComment)])
                  ELSE Append(acc, comment)
       IN reduceComments_OffByOne(next, Tail(cs), commentId, updatedComment)

\* A slip: the replies are not searched, only the sequence given.
updateCommentRecursive_Shallow(cs, commentId, updatedComment) ==
  IF updatedComment = NullComment
  THEN SelectSeq(cs, LAMBDA comment : comment.id # commentId)
  ELSE [i \in 1..Len(cs) |->
          IF cs[i].id = commentId THEN updatedComment ELSE cs[i]]

\* comments.reduce((acc, comment) => ..., acc) of updateCommentRecursive,
\* from the left.
reduceComments(acc, cs, commentId, updatedComment) ==
  IF cs = <<>> THEN acc
  ELSE LET comment == Head(cs)
           next ==
             IF comment.id = commentId
             THEN IF updatedComment = NullComment
                  THEN acc
                  ELSE Append(acc, updatedComment)
             ELSE IF HasReplies(comment) /\ Len(comment.replies) > 0
                  THEN Append(acc,
                         [comment EXCEPT !.replies =
                            updateCommentRecursive(comment.replies, commentId,
                                                   updatedComment)])
                  ELSE Append(acc, comment)
       IN reduceComments(next, Tail(cs), commentId, updatedComment)

updateCommentRecursive(cs, commentId, updatedComment) ==
  reduceComments(<<>>, cs, commentId, updatedComment)

\* The transform the add operations pass to updateCommentReplies:
\* (parent) => ({...parent, replies: [newComment, ...parent.replies]}).
\* Spreading parent.replies throws a TypeError when it is undefined.
prependThrows(parent) == ~HasReplies(parent)

\* A slip: the new reply goes to the end of the replies.
prependReply_Append(parent, newComment) ==
  [parent EXCEPT !.replies = parent.replies \o <<newComment>>]

prependReply(parent, newComment) ==
  [parent EXCEPT !.replies = <<newComment>> \o parent.replies]

RECURSIVE updateCommentReplies_Append(_, _, _)
\* A slip: the transform is `[...parent.replies, newComment]`.
updateCommentReplies_Append(cs, commentId, newComment) ==
  [i \in 1..Len(cs) |->
     LET comment == cs[i]
     IN IF comment.id = commentId
        THEN [comment EXCEPT !.replies = comment.replies \o <<newComment>>]
        ELSE IF HasReplies(comment) /\ Len(comment.replies) > 0
             THEN [comment EXCEPT !.replies =
                     updateCommentReplies_Append(comment.replies, commentId,
                                                 newComment)]
             ELSE comment]

RECURSIVE updateCommentReplies(_, _, _)
\* comments.map(...) with the prepend transform; used where it does not throw.
updateCommentReplies(cs, commentId, newComment) ==
  [i \in 1..Len(cs) |->
     LET comment == cs[i]
     IN IF comment.id = commentId
        THEN prependReply(comment, newComment)
        ELSE IF HasReplies(comment) /\ Len(comment.replies) > 0
             THEN [comment EXCEPT !.replies =
                     updateCommentReplies(comment.replies, commentId, newComment)]
             ELSE comment]

RECURSIVE updateCommentRepliesThrows(_, _)
\* Whether that traversal reaches a node on which the transform throws.
updateCommentRepliesThrows(cs, commentId) ==
  \E i \in 1..Len(cs) :
    LET comment == cs[i]
    IN IF comment.id = commentId
       THEN prependThrows(comment)
       ELSE /\ HasReplies(comment)
            /\ Len(comment.replies) > 0
            /\ updateCommentRepliesThrows(comment.replies, commentId)

(***************************************************************************)
(* Forest vocabulary used by the backend and by the properties.            *)
(***************************************************************************)
RECURSIVE IdsOf(_)
\* The ids that occur in a forest, at any depth.
IdsOf(F) ==
  UNION { {F[i].id} \cup (IF HasReplies(F[i]) THEN IdsOf(F[i].replies) ELSE {})
          : i \in 1..Len(F) }

RECURSIVE CountOf(_, _)
\* How many nodes of the forest carry this id.
CountOf(F, id) ==
  IF F = <<>> THEN 0
  ELSE (IF Head(F).id = id THEN 1 ELSE 0)
       + (IF HasReplies(Head(F)) THEN CountOf(Head(F).replies, id) ELSE 0)
       + CountOf(Tail(F), id)

UniqueIds(F) == \A id \in IdsOf(F) : CountOf(F, id) = 1

RECURSIVE NodesOf(_)
\* The nodes of a forest, at any depth.
NodesOf(F) ==
  UNION { {F[i]} \cup (IF HasReplies(F[i]) THEN NodesOf(F[i].replies) ELSE {})
          : i \in 1..Len(F) }

\* The node with this id (ids unique).
NodeOf(F, id) == CHOOSE n \in NodesOf(F) : n.id = id

\* A slip: the reply also goes to the root sequence (the else is lost).
insertComment_RootToo(cs, parent_id, newComment) ==
  IF parent_id = NullId
  THEN <<newComment>> \o cs
  ELSE <<newComment>> \o updateCommentReplies(cs, parent_id, newComment)

\* A slip: new root comments go to the end of the root sequence.
insertComment_Append(cs, parent_id, newComment) ==
  IF parent_id = NullId
  THEN cs \o <<newComment>>
  ELSE updateCommentReplies(cs, parent_id, newComment)

\* A slip: a reply whose parent is not found falls back to the root sequence.
insertComment_OrphanToRoot(cs, parent_id, newComment) ==
  IF parent_id = NullId \/ parent_id \notin IdsOf(cs)
  THEN <<newComment>> \o cs
  ELSE updateCommentReplies(cs, parent_id, newComment)

\* What the add operations do with the created node: `if (!comment.parent_id)`
\* it goes to the front of the root sequence, else to the front of its
\* parent's replies.
insertComment(cs, parent_id, newComment) ==
  IF parent_id = NullId
  THEN <<newComment>> \o cs
  ELSE updateCommentReplies(cs, parent_id, newComment)

insertCommentThrows(cs, parent_id) ==
  parent_id # NullId /\ updateCommentRepliesThrows(cs, parent_id)

(***************************************************************************)
(* The backend: it stores the forest of one content item and assigns ids.  *)
(* POST returns the created node with empty replies, PUT the edited node   *)
(* without replies, DELETE no payload; a delete takes the subtree along.   *)
(***************************************************************************)
RECURSIVE backendCreate(_, _)
backendCreate(F, node) ==
  IF node.parent_id = NullId THEN <<node>> \o F
  ELSE [i \in 1..Len(F) |->
          IF F[i].id = node.parent_id
          THEN [F[i] EXCEPT !.replies = <<node>> \o @]
          ELSE [F[i] EXCEPT !.replies = backendCreate(@, node)]]

RECURSIVE backendEdit(_, _, _)
backendEdit(F, id, content) ==
  [i \in 1..Len(F) |->
     IF F[i].id = id
     THEN [F[i] EXCEPT !.content = content]
     ELSE [F[i] EXCEPT !.replies = backendEdit(@, id, content)]]

RECURSIVE backendDelete(_, _)
backendDelete(F, id) ==
  IF F = <<>> THEN <<>>
  ELSE IF Head(F).id = id THEN backendDelete(Tail(F), id)
  ELSE <<[Head(F) EXCEPT !.replies = backendDelete(@, id)]>>
       \o backendDelete(Tail(F), id)

\* The body of the PUT response: the edited node, replies absent.
backendEdited(F, id, content) ==
  [id |-> id, parent_id |-> NodeOf(F, id).parent_id, content |-> content]

(***************************************************************************)
(* Responses of fetch() and handleResponse                                 *)
(***************************************************************************)
\* A response: ok is response.ok, noContent is status 204, json holds the
\* parsed body, or nothing when the body is not JSON.
JsonResponse(body) == [ok |-> TRUE, noContent |-> FALSE, json |-> <<body>>]
NoContentResponse == [ok |-> TRUE, noContent |-> TRUE, json |-> <<>>]
ErrorResponse == [ok |-> FALSE, noContent |-> FALSE, json |-> <<>>]
GarbageResponse == [ok |-> TRUE, noContent |-> FALSE, json |-> <<>>]

\* handleResponse: whether it throws, the message thrown, the value returned.
handleResponseThrows(response) ==
  \/ ~response.ok
  \/ ~response.noContent /\ response.json = <<>>

handleResponseMessage(response) ==
  IF ~response.ok THEN "Error: status"
  ELSE "Invalid response format from server"

handleResponse(response) ==
  IF response.noContent THEN <<>> ELSE response.json[1]

(***************************************************************************)
(* commentStore.ts: useCommentStore                                        *)
(***************************************************************************)
NoCall == [op |-> "none"]

\* A call that awaits fetch(): its request, and the response the backend
\* gave it, or Failure when the request is not served.
Pending(op, id, content, resp) ==
  [op |-> op, id |-> id, content |-> content, resp |-> resp]

Failure == [failed |-> TRUE]

await(pending) == inflight' = inflight (+) SetToBag({pending})

\* The backend serves the request and answers it.
backendServes(op, id, content) ==
  LET F == server.forest
  IN \/ /\ op = "fetch"
        /\ await(Pending(op, id, content, JsonResponse(F)))
        /\ UNCHANGED server
     \/ /\ op = "add"
        /\ server.nextId <= MaxId
        /\ id = NullId \/ id \in IdsOf(F)
        /\ LET node == Comment(server.nextId, id, content)
           IN /\ server' = [forest |-> backendCreate(F, node),
                            nextId |-> server.nextId + 1]
              /\ await(Pending(op, id, content, JsonResponse(node)))
     \/ /\ op = "update"
        /\ id \in IdsOf(F)
        /\ server' = [server EXCEPT !.forest = backendEdit(F, id, content)]
        /\ await(Pending(op, id, content,
                         JsonResponse(backendEdited(F, id, content))))
     \/ /\ op = "delete"
        /\ id \in IdsOf(F)
        /\ server' = [server EXCEPT !.forest = backendDelete(F, id)]
        /\ await(Pending(op, id, content, NoContentResponse))

\* The request is not served: the backend is left as it was.
requestFails(op, id, content) ==
  /\ await(Pending(op, id, content, Failure))
  /\ UNCHANGED server

\* How the await of fetch() ends for a pending call: with the backend's
\* response; or, for a request that fails, with an error status, with a body
\* that is not JSON, or with fetch() rejecting (a network error).  deleteComment
\* never reads the body of a response whose status is ok, so no body makes a
\* delete fail.
Responded(response) == [rejected |-> FALSE, response |-> response]
Rejected == [rejected |-> TRUE]

Outcomes(p) ==
  IF p.resp # Failure THEN {Responded(p.resp)}
  ELSE IF p.op = "delete" THEN {Responded(ErrorResponse), Rejected}
  ELSE {Responded(ErrorResponse), Responded(GarbageResponse), Rejected}

\* set({ isLoading: true, error: null }), then the request goes out.  The
\* backend serves a request as it is sent; its response then travels for as
\* long as it takes, so responses arrive in any order.
send(op, id, content) ==
  /\ BagCardinality(inflight) < MaxInFlight
  /\ isLoading' = TRUE
  /\ error' = NoError
  /\ backendServes(op, id, content) \/ requestFails(op, id, content)
  /\ UNCHANGED comments

\* A slip: the catch block leaves isLoading as the call set it.
notLoggedIn_StillLoading(message) ==
  /\ isLoading' = TRUE
  /\ error' = message
  /\ UNCHANGED <<comments, inflight, server>>

\* getAuthToken() returned nothing: the call throws before any request and
\* its catch block runs.
notLoggedIn(message) ==
  /\ isLoading' = FALSE
  /\ error' = message
  /\ UNCHANGED <<comments, inflight, server>>

\* The catch block of add, update and delete.
catch(p, message) ==
  /\ error' = message
  /\ isLoading' = FALSE
  /\ inflight' = inflight (-) SetToBag({p})
  /\ UNCHANGED <<comments, server>>

\* set({ comments: ..., isLoading: false })
setComments(p, forest) ==
  /\ comments' = forest
  /\ isLoading' = FALSE
  /\ inflight' = inflight (-) SetToBag({p})
  /\ UNCHANGED <<error, server>>

\* fetchGameComments, fetchNewsComments, fetchDiscussionComments: up to the
\* await of fetch().
fetchComments == send("fetch", NullId, "")

\* ... and from there on.
fetchCommentsSettled(p, o) ==
  /\ BagIn(p, inflight)
  /\ p.op = "fetch"
  /\ IF ~o.rejected /\ ~handleResponseThrows(o.response)
     THEN setComments(p, handleResponse(o.response))
     ELSE /\ error' = IF o.rejected THEN "Failed to fetch"
                      ELSE handleResponseMessage(o.response)
          /\ isLoading' = FALSE
          /\ comments' = <<>>
          /\ inflight' = inflight (-) SetToBag({p})
          /\ UNCHANGED server

\* addGameComment, addNewsComment, addDiscussionComment: up to the await.
addComment(parent_id, content, token) ==
  IF token THEN send("add", parent_id, content)
  ELSE notLoggedIn("You must be logged in to add a comment")

\* ... and from there on: the new node goes to the front of the root
\* sequence, or of its parent's replies.
addCommentSettled(p, o) ==
  /\ BagIn(p, inflight)
  /\ p.op = "add"
  /\ IF o.rejected THEN catch(p, "Failed to fetch")
     ELSE IF handleResponseThrows(o.response)
     THEN catch(p, handleResponseMessage(o.response))
     ELSE LET newComment == handleResponse(o.response)
          IN IF insertCommentThrows(comments, p.id)
             THEN catch(p, "parent.replies is not iterable")
             ELSE setComments(p, insertComment(comments, p.id, newComment))

\* updateComment: up to the await.
updateComment(commentId, content, token) ==
  IF token THEN send("update", commentId, content)
  ELSE notLoggedIn("You must be logged in to update a comment")

\* ... and from there on.
updateCommentSettled(p, o) ==
  /\ BagIn(p, inflight)
  /\ p.op = "update"
  /\ IF o.rejected THEN catch(p, "Failed to fetch")
     ELSE IF handleResponseThrows(o.response)
     THEN catch(p, handleResponseMessage(o.response))
     ELSE setComments(p, updateCommentRecursive(comments, p.id,
                                                handleResponse(o.response)))

\* deleteComment: up to the await.
deleteComment(commentId, token) ==
  IF token THEN send("delete", commentId, "")
  ELSE notLoggedIn("You must be logged in to delete a comment")

\* A slip: a delete of a comment the forest no longer holds is an error.
deleteCommentSettled_Strict(p, o) ==
  /\ BagIn(p, inflight)
  /\ p.op = "delete"
  /\ IF o.rejected THEN catch(p, "Failed to fetch")
     ELSE IF ~o.response.noContent /\ ~o.response.ok
     THEN catch(p, handleResponseMessage(o.response))
     ELSE IF p.id \notin IdsOf(comments)
     THEN catch(p, "Comment not found")
     ELSE setComments(p, updateCommentRecursive(comments, p.id, NullComment))

\* ... and from there on: the body is read only when the status is an error.
deleteCommentSettled(p, o) ==
  /\ BagIn(p, inflight)
  /\ p.op = "delete"
  /\ IF o.rejected THEN catch(p, "Failed to fetch")
     ELSE IF ~o.response.noContent /\ ~o.response.ok
     THEN catch(p, handleResponseMessage(o.response))
     ELSE setComments(p, updateCommentRecursive(comments, p.id, NullComment))

(***************************************************************************)
(* The search store (store/searchStore.ts): the debounced quick search of  *)
(* the navigation bar.  A query is the sequence of its characters.         *)
(***************************************************************************)
\* The clock advances by at most Tick milliseconds at a time, up to MaxTime.
Tick == 100
MaxTime == 700
\* quickSearch is called at most MaxQuickSearches times.
MaxQuickSearches == 3

\* debounce's `wait` as quickSearch passes it, in milliseconds.
wait == 300

Queries == {<<"a", "b">>, <<"a", "b", "c">>, <<" ">>}

RECURSIVE trimStart(_)
trimStart(query) ==
  IF query # <<>> /\ Head(query) = " " THEN trimStart(Tail(query)) ELSE query

RECURSIVE trimEnd(_)
trimEnd(query) ==
  IF query # <<>> /\ query[Len(query)] = " "
  THEN trimEnd(SubSeq(query, 1, Len(query) - 1))
  ELSE query

\* query.trim()
trim(query) == trimEnd(trimStart(query))

\* GET /search?query=...: the items of the SearchResponse.  Queries that
\* differ are answered with items that differ.
backendSearch(query) == <<[title |-> query]>>

\* `let timeout` before the first setTimeout: clearTimeout(undefined) clears
\* nothing.
NoTimer == [at |-> -1, args |-> <<>>]

createSearchStore ==
  /\ search = [quickResults |-> <<>>, isQuickSearching |-> FALSE,
               quickSearchError |-> NoError]
  /\ timers = {}
  /\ timeout = NoTimer
  /\ now = 0
  /\ searching = EmptyBag
  /\ inputQuery = <<>>

\* The timers whose wait has elapsed: the browser runs their callbacks before
\* it handles later input or lets more time pass.
Due == {t \in timers : t.at <= now}

\* debounce without clearTimeout: every call's timer stays set.
debounce_NoClear(args) ==
  /\ timers' = timers \cup {[at |-> now + wait, args |-> args]}
  /\ timeout' = [at |-> now + wait, args |-> args]

\* The function debounce returns:
\*   clearTimeout(timeout); timeout = setTimeout(() => func(...args), wait)
debounce(args) ==
  /\ timers' = (timers \ {timeout}) \cup {[at |-> now + wait, args |-> args]}
  /\ timeout' = [at |-> now + wait, args |-> args]

quickSearch(query) ==
  /\ Due = {}
  /\ debounce(query)
  /\ UNCHANGED <<search, now, searching, inputQuery>>
  /\ UNCHANGED <<comments, isLoading, error, inflight, server, authVars, uiVars>>

\* performQuickSearch up to its `await fetch(url)`
performQuickSearch(query) ==
  IF trim(query) = <<>>
  THEN /\ search' = [quickResults |-> <<>>, quickSearchError |-> NoError,
                     isQuickSearching |-> FALSE]
       /\ UNCHANGED searching
  ELSE /\ search' = [search EXCEPT !.isQuickSearching = TRUE,
                                   !.quickSearchError = NoError]
       /\ searching' = searching (+) SetToBag({[query |-> query]})

\* The callback of timer t runs: () => func(...args), func being
\* (query) => { performQuickSearch(query) }.
timerFires(t) ==
  /\ t \in Due
  /\ timers' = timers \ {t}
  /\ performQuickSearch(t.args)
  /\ UNCHANGED <<timeout, now, inputQuery>>
  /\ UNCHANGED <<comments, isLoading, error, inflight, server, authVars, uiVars>>

\* performQuickSearch from its `await fetch(url)` on: the response is ok and
\* parsed, or the catch block runs.
performQuickSearchSettled(p, ok) ==
  /\ BagIn(p, searching)
  /\ searching' = searching (-) SetToBag({p})
  /\ search' = IF ok
               THEN [quickResults |-> backendSearch(p.query),
                     isQuickSearching |-> FALSE,
                     quickSearchError |-> NoError]
               ELSE [search EXCEPT !.quickSearchError = "Quick search failed",
                                   !.isQuickSearching = FALSE]
  /\ UNCHANGED <<timers, timeout, now, inputQuery>>
  /\ UNCHANGED <<comments, isLoading, error, inflight, server, authVars, uiVars>>

\* Time passes, no further than the next timer's due time.
Elapse ==
  /\ Due = {}
  /\ now < MaxTime
  /\ LET next == now + Tick
         due == {t.at : t \in timers}
     IN now' = IF \E at \in due : at < next
               THEN CHOOSE at \in due : \A other \in due : at <= other
               ELSE next
  /\ UNCHANGED <<search, timers, timeout, searching, inputQuery>>
  /\ UNCHANGED <<comments, isLoading, error, inflight, server, authVars, uiVars>>

(***************************************************************************)
(* The auth store (useAuthStore).  A token is a string, userData is the    *)
(* id of the user; null is NullToken and NoUser.                           *)
(***************************************************************************)
NullToken == "null"
Tokens == {"t1", "t2"}
NoUser == 0
Users == 1..2

\* loadInitialState() and the initial state of useAuthStore, for what
\* localStorage holds when the page loads.
loadInitialState ==
  [token |-> localStorage.token,
   userData |-> localStorage.userData,
   isAuthenticated |-> localStorage.token # NullToken
                       /\ localStorage.userData # NoUser,
   isLoading |-> FALSE,
   error |-> NoError]

\* The page loads with an empty localStorage.
createAuthStore ==
  /\ localStorage = [token |-> NullToken, userData |-> NoUser]
  /\ auth = loadInitialState
  /\ authCalls = EmptyBag

\* set({ token, isAuthenticated: true }) after localStorage.setItem
setToken(state, token) == [state EXCEPT !.token = token, !.isAuthenticated = TRUE]

\* set({ userData, isAuthenticated: true }) after localStorage.setItem
setUserData(state, userData) ==
  [state EXCEPT !.userData = userData, !.isAuthenticated = TRUE]

\* The finally block of logout.
loggedOut(state) ==
  [state EXCEPT !.token = NullToken, !.userData = NoUser,
                !.isAuthenticated = FALSE, !.isLoading = FALSE]

NoStorage == [token |-> NullToken, userData |-> NoUser]

\* login: up to the await of fetch().
login ==
  /\ BagCardinality(authCalls) < MaxInFlight
  /\ auth' = [auth EXCEPT !.isLoading = TRUE, !.error = NoError]
  /\ authCalls' = authCalls (+) SetToBag({[op |-> "login"]})
  /\ UNCHANGED localStorage

\* fetchUser: up to the await of fetch(); without a token it returns at once.
fetchUserFrom(state, calls) ==
  IF state.token = NullToken
  THEN [state |-> state, calls |-> calls]
  ELSE [state |-> [state EXCEPT !.isLoading = TRUE],
        calls |-> calls (+) SetToBag({[op |-> "fetchUser"]})]

fetchUser ==
  /\ BagCardinality(authCalls) < MaxInFlight
  /\ auth' = fetchUserFrom(auth, authCalls).state
  /\ authCalls' = fetchUserFrom(auth, authCalls).calls
  /\ UNCHANGED localStorage

\* login from the await on.  ok: setToken(data.access_token), then fetchUser
\* is awaited; the `finally` of login runs when fetchUser has completed, and
\* sets isLoading false as the `finally` of fetchUser has just done.
loginSettled(p, ok, token) ==
  /\ BagIn(p, authCalls)
  /\ p.op = "login"
  /\ LET calls == authCalls (-) SetToBag({p})
     IN IF ok
        THEN /\ localStorage' = [localStorage EXCEPT !.token = token]
             /\ auth' = fetchUserFrom(setToken(auth, token), calls).state
             /\ authCalls' = fetchUserFrom(setToken(auth, token), calls).calls
        ELSE /\ auth' = [auth EXCEPT !.error = "Login failed",
                                     !.isLoading = FALSE]
             /\ authCalls' = calls
             /\ UNCHANGED localStorage

\* logout: const { token } = get(); with a token it awaits the DELETE, without
\* one its finally block runs at once.
logoutFrom(state, storage, calls) ==
  IF state.token # NullToken
  THEN [state |-> [state EXCEPT !.isLoading = TRUE], storage |-> storage,
        calls |-> calls (+) SetToBag({[op |-> "logout"]})]
  ELSE [state |-> loggedOut(state), storage |-> NoStorage, calls |-> calls]

logout ==
  /\ BagCardinality(authCalls) < MaxInFlight
  /\ auth' = logoutFrom(auth, localStorage, authCalls).state
  /\ localStorage' = logoutFrom(auth, localStorage, authCalls).storage
  /\ authCalls' = logoutFrom(auth, localStorage, authCalls).calls

\* logout from the await on: whatever the response, the finally block.
logoutSettled(p) ==
  /\ BagIn(p, authCalls)
  /\ p.op = "logout"
  /\ authCalls' = authCalls (-) SetToBag({p})
  /\ localStorage' = NoStorage
  /\ auth' = loggedOut(auth)

\* The statuses fetchUser tells apart; 0 stands for fetch() rejecting.
Statuses == {200, 401, 500, 0}

\* fetchUser from the await on.
fetchUserSettled(p, status, userData) ==
  /\ BagIn(p, authCalls)
  /\ p.op = "fetchUser"
  /\ LET calls == authCalls (-) SetToBag({p})
         out == logoutFrom(auth, localStorage, calls)
     IN CASE status = 200 ->
               /\ localStorage' = [localStorage EXCEPT !.userData = userData]
               /\ auth' = [setUserData(auth, userData)
                             EXCEPT !.isLoading = FALSE]
               /\ authCalls' = calls
          [] status = 401 ->
               /\ localStorage' = out.storage
               /\ auth' = [out.state EXCEPT !.isLoading = FALSE]
               /\ authCalls' = out.calls
          [] OTHER ->
               /\ auth' = [auth EXCEPT !.isLoading = FALSE]
               /\ authCalls' = calls
               /\ UNCHANGED localStorage

\* getAuthToken(): the auth store's token, or else localStorage's.
getAuthToken ==
  IF auth.token = NullToken THEN localStorage.token ELSE auth.token

(***************************************************************************)
(* The components' initial state.                                          *)
(***************************************************************************)
mountComponents ==
  /\ replyingTo = NullId
  /\ gameCarousel = [media |-> <<>>, mediaItems |-> <<>>, currentIndex |-> 0]
  /\ newsCarousel = [carouseldata |-> <<>>, currentIndex |-> 0,
                     effect |-> FALSE, interval |-> 0]
  /\ pagination = [currentPage |-> 1, totalPages |-> 1, inputPage |-> <<"1">>]

(***************************************************************************)
(* The store and its callers                                               *)
(***************************************************************************)
Init ==
  /\ comments = <<>>
  /\ isLoading = FALSE
  /\ error = NoError
  /\ inflight = EmptyBag
  /\ server = [forest |-> <<>>, nextId |-> 1]
  /\ call = NoCall
  /\ createSearchStore
  /\ createAuthStore
  /\ mountComponents

\* The comments a caller can name: those the store shows.
Shown == IdsOf(comments)

\* The store keeps no history: `call` is written by the specifications that
\* record one.
NextMutations ==
  \/ \E parent_id \in {NullId} \cup Shown, token \in BOOLEAN :
       addComment(parent_id, "a", token) /\ UNCHANGED <<call, searchVars, authVars, uiVars>>
  \/ \E commentId \in Shown, token \in BOOLEAN :
       updateComment(commentId, "b", token) /\ UNCHANGED <<call, searchVars, authVars, uiVars>>
  \/ \E commentId \in Shown, token \in BOOLEAN :
       deleteComment(commentId, token) /\ UNCHANGED <<call, searchVars, authVars, uiVars>>
  \/ \E p \in BagToSet(inflight) : \E o \in Outcomes(p) :
       \/ addCommentSettled(p, o) /\ UNCHANGED <<call, searchVars, authVars, uiVars>>
       \/ updateCommentSettled(p, o) /\ UNCHANGED <<call, searchVars, authVars, uiVars>>
       \/ deleteCommentSettled(p, o) /\ UNCHANGED <<call, searchVars, authVars, uiVars>>

Next ==
  \/ NextMutations
  \/ fetchComments /\ UNCHANGED <<call, searchVars, authVars, uiVars>>
  \/ \E p \in BagToSet(inflight) : \E o \in Outcomes(p) :
       fetchCommentsSettled(p, o) /\ UNCHANGED <<call, searchVars, authVars, uiVars>>

Spec == Init /\ [][Next]_vars

\* Add, update and delete only, from a forest that was fetched.
SpecMutations == Init /\ [][NextMutations]_vars

(***************************************************************************)
(* The helpers alone: the three operations of the synchronizer applied to  *)
(* the forest with any arguments, no request in between.  `call` keeps the *)
(* arguments and the input of the last one; a remove that directly follows *)
(* the insert of the node it removes keeps that insert too.                *)
(***************************************************************************)
SyncIds == 1..MaxNodes

\* A use of a helper: which operation, the id it looks for, the node it is
\* given, the forest it is given, whether it threw.
Called(op, id, node, threw, prior) ==
  [op |-> op, id |-> id, node |-> node, before |-> comments,
   threw |-> threw, prior |-> prior]

\* The insert that the last call made of the node now to be removed, if any.
PriorInsert(commentId) ==
  IF call.op = "insert" /\ ~call.threw /\ call.node.id = commentId
  THEN <<[call EXCEPT !.prior = <<>>]>>
  ELSE <<>>

\* Insert(forest, node): the node is new to the forest; its parent_id is null,
\* the id of a node of the forest, or an id the forest does not hold.
syncInsert(node) ==
  /\ node.id \notin IdsOf(comments)
  /\ node.parent_id # node.id
  /\ IF insertCommentThrows(comments, node.parent_id)
     THEN /\ call' = Called("insert", node.parent_id, node, TRUE, <<>>)
          /\ UNCHANGED comments
     ELSE /\ call' = Called("insert", node.parent_id, node, FALSE, <<>>)
          /\ comments' = insertComment(comments, node.parent_id, node)
  /\ UNCHANGED <<isLoading, error, inflight, server, searchVars,
               authVars, uiVars>>

\* Replace(forest, targetId, newNode)
syncReplace(commentId, updatedComment) ==
  /\ call' = Called("replace", commentId, updatedComment, FALSE, <<>>)
  /\ comments' = updateCommentRecursive(comments, commentId, updatedComment)
  /\ UNCHANGED <<isLoading, error, inflight, server, searchVars,
               authVars, uiVars>>

\* Replace(forest, targetId, null)
syncRemove(commentId) ==
  /\ call' = Called("remove", commentId, NullComment, FALSE,
                    PriorInsert(commentId))
  /\ comments' = updateCommentRecursive(comments, commentId, NullComment)
  /\ UNCHANGED <<isLoading, error, inflight, server, searchVars,
               authVars, uiVars>>

\* The nodes an edit may put in place of commentId: the edited node as the
\* backend returns it (no replies), or a whole Comment.
Replacements(commentId) ==
  LET parent_id == IF commentId \in IdsOf(comments)
                   THEN NodeOf(comments, commentId).parent_id
                   ELSE NullId
  IN {[id |-> commentId, parent_id |-> parent_id, content |-> "b"],
      Comment(commentId, parent_id, "b")}

NextSync ==
  \/ \E id \in SyncIds, parent_id \in {NullId} \cup SyncIds :
       syncInsert(Comment(id, parent_id, "a"))
  \/ \E commentId \in SyncIds : \E updatedComment \in Replacements(commentId) :
       syncReplace(commentId, updatedComment)
  \/ \E commentId \in SyncIds : syncRemove(commentId)

SpecSync == Init /\ [][NextSync]_vars

(***************************************************************************)
(* Positions in a forest, for the properties: a path is the sequence of    *)
(* indices that leads from the root sequence to a node.                    *)
(***************************************************************************)
RECURSIVE Paths(_)
Paths(F) ==
  UNION { {<<i>>} \cup (IF HasReplies(F[i])
                        THEN {<<i>> \o q : q \in Paths(F[i].replies)}
                        ELSE {})
          : i \in 1..Len(F) }

RECURSIVE NodeAt(_, _)
NodeAt(F, path) ==
  IF Len(path) = 1 THEN F[path[1]]
  ELSE NodeAt(F[path[1]].replies, Tail(path))

\* Where the node with this id is (ids unique).
PathOf(F, id) == CHOOSE path \in Paths(F) : NodeAt(F, path).id = id

RECURSIVE WithNodeAt(_, _, _)
\* The forest with the node at this path exchanged for another, and nothing
\* else touched.
WithNodeAt(F, path, node) ==
  IF Len(path) = 1 THEN [F EXCEPT ![path[1]] = node]
  ELSE [F EXCEPT ![path[1]] =
          [F[path[1]] EXCEPT !.replies =
             WithNodeAt(F[path[1]].replies, Tail(path), node)]]

RECURSIVE Entries(_, _)
\* Every node with what it says and the node that holds it (NullId: the root
\* sequence).
Entries(F, holder) ==
  UNION { {[id |-> F[i].id, content |-> F[i].content,
            parent_id |-> F[i].parent_id, holder |-> holder,
            hasReplies |-> HasReplies(F[i])]}
          \cup (IF HasReplies(F[i]) THEN Entries(F[i].replies, F[i].id) ELSE {})
          : i \in 1..Len(F) }

RECURSIVE OrderPairs(_)
\* <<a, b>>: a and b are siblings and a comes before b.
OrderPairs(F) ==
  {<<F[ij[1]].id, F[ij[2]].id>> :
     ij \in {pr \in (1..Len(F)) \X (1..Len(F)) : pr[1] < pr[2]}}
  \cup UNION { IF HasReplies(F[i]) THEN OrderPairs(F[i].replies) ELSE {}
               : i \in 1..Len(F) }

\* A node and all its descendants.
SubtreeIds(F, id) == IdsOf(<<NodeOf(F, id)>>)

(***************************************************************************)
(* Properties of the helpers (SpecSync).                                   *)
(***************************************************************************)
\* The last call inserted a node under a parent that the forest holds, and
\* that parent has a replies list.
InsertedUnderParent ==
  /\ call.op = "insert"
  /\ call.id # NullId
  /\ call.id \in IdsOf(call.before)
  /\ UniqueIds(call.before)
  /\ HasReplies(NodeOf(call.before, call.id))

\* C1: inserting a reply under a parent P that the forest holds, at any
\* depth, gives the same forest except that P's replies are the new node
\* followed by P's former replies; no other node, content, replies list or
\* position changes.
C1_InsertUnderParent ==
  InsertedUnderParent =>
    LET P == NodeOf(call.before, call.id)
    IN /\ ~call.threw
       /\ comments = WithNodeAt(call.before, PathOf(call.before, call.id),
                                [P EXCEPT !.replies = <<call.node>> \o P.replies])

\* C1 happens: a reply was inserted under a parent that had a reply already.
C1_Witness ==
  /\ InsertedUnderParent
  /\ NodeOf(call.before, call.id).replies # <<>>
  /\ call.node.id \in IdsOf(comments)
  /\ comments # call.before

\* The last call replaced a node that has replies by a node that carries new
\* content and no replies field.
ReplacedParentByEdit ==
  /\ call.op = "replace"
  /\ call.id \in IdsOf(call.before)
  /\ UniqueIds(call.before)
  /\ HasReplies(NodeOf(call.before, call.id))
  /\ NodeOf(call.before, call.id).replies # <<>>
  /\ ~HasReplies(call.node)

\* C2: replacing a node N that has replies by a node N' with new content and
\* no replies field leaves, at N's position, a node with N's replies and N''s
\* content.
C2_ReplacePreservesSubtree ==
  ReplacedParentByEdit =>
    LET path == PathOf(call.before, call.id)
        N == NodeAt(call.before, path)
    IN /\ path \in Paths(comments)
       /\ NodeAt(comments, path).content = call.node.content
       /\ HasReplies(NodeAt(comments, path))
       /\ NodeAt(comments, path).replies = N.replies

\* The last call removed a node that the forest holds.
RemovedNode ==
  /\ call.op = "remove"
  /\ call.id \in IdsOf(call.before)
  /\ UniqueIds(call.before)

\* C3: removing N leaves a forest without N and without any descendant of N,
\* in which every other node is still there with the same content, the same
\* parent and the same order among its siblings.
C3_RemoveExcisesSubtree ==
  RemovedNode =>
    LET gone == SubtreeIds(call.before, call.id)
    IN /\ IdsOf(comments) = IdsOf(call.before) \ gone
       /\ UniqueIds(comments)
       /\ Entries(comments, NullId) =
            {e \in Entries(call.before, NullId) : e.id \notin gone}
       /\ OrderPairs(comments) =
            {pr \in OrderPairs(call.before) : pr[1] \notin gone /\ pr[2] \notin gone}

\* C3 happens: a nested node with a descendant was removed, and it had a
\* sibling.
C3_Witness ==
  /\ RemovedNode
  /\ Cardinality(SubtreeIds(call.before, call.id)) >= 2
  /\ IdsOf(comments) # {}
  /\ \E pr \in OrderPairs(call.before) : call.id \in {pr[1], pr[2]}

\* C4: inserting a node whose parent_id is null gives the root sequence
\* [node, ...former root sequence], every former root unchanged.
C4_InsertAtRoot ==
  (call.op = "insert" /\ call.id = NullId) =>
    /\ ~call.threw
    /\ Len(comments) = Len(call.before) + 1
    /\ comments[1] = call.node
    /\ \A i \in 1..Len(call.before) : comments[i + 1] = call.before[i]

\* C4 happens: a root node was inserted before a root that has replies.
C4_Witness ==
  /\ call.op = "insert"
  /\ call.id = NullId
  /\ \E i \in 1..Len(call.before) :
       HasReplies(call.before[i]) /\ call.before[i].replies # <<>>

\* C5: replacing or removing an id that occurs nowhere in the forest returns a
\* forest equal to the input, and throws nothing.
C5_NoOpOnUnknownId ==
  (call.op \in {"replace", "remove"} /\ call.id \notin IdsOf(call.before)) =>
    comments = call.before /\ ~call.threw

\* C5 happens: for a delete and for a replacement node, on a forest with
\* nested replies.
C5_WitnessRemove ==
  /\ call.op = "remove"
  /\ call.id \notin IdsOf(call.before)
  /\ \E path \in Paths(call.before) : Len(path) >= 2

C5_Witness ==
  /\ call.op = "replace"
  /\ call.id \notin IdsOf(call.before)
  /\ \E path \in Paths(call.before) : Len(path) >= 2

\* The last call removed the node that the call before it had inserted under
\* a parent that the forest held.
RemovedInserted ==
  /\ call.op = "remove"
  /\ call.prior # <<>>
  /\ call.prior[1].id # NullId
  /\ call.prior[1].id \in IdsOf(call.prior[1].before)
  /\ UniqueIds(call.prior[1].before)

\* C6: inserting a node under a parent that the forest holds and then
\* removing it by its id gives back the forest as it was.
C6_InsertRemoveRoundTrip ==
  RemovedInserted => comments = call.prior[1].before

\* C6 happens: the parent was nested and had no replies before the insert.
C6_Witness ==
  /\ RemovedInserted
  /\ LET F == call.prior[1].before
     IN /\ Len(PathOf(F, call.prior[1].id)) >= 2
        /\ NodeOf(F, call.prior[1].id).replies = <<>>

(***************************************************************************)
(* Properties of the store under add, update and delete (SpecMutations).   *)
(***************************************************************************)
\* No call of the store is pending.
Settled == inflight = EmptyBag

\* C7: once every call has settled, each comment that was added and not
\* deleted since (itself or with an ancestor: the backend still holds it)
\* occurs exactly once in the forest of the store, directly under the node
\* whose id is its parent_id, or in the root sequence when that is null.
C7_Placement ==
  Settled =>
    \A e \in Entries(server.forest, NullId) :
      /\ CountOf(comments, e.id) = 1
      /\ \E c \in Entries(comments, NullId) :
           c.id = e.id /\ c.holder = e.parent_id

\* C8: no id occurs more than once in the forest of the store.
C8_UniqueIds == UniqueIds(comments)

\* C8 happens: replies were added, a comment was edited, one was deleted, and
\* every call has settled.
C8_Witness ==
  /\ Settled
  /\ \E path \in Paths(comments) : Len(path) >= 2
  /\ \E node \in NodesOf(comments) : node.content = "b"
  /\ Cardinality(IdsOf(comments)) < server.nextId - 1

\* The await of pending call p ends in this step.
Settles(p) == BagIn(p, inflight) /\ inflight' = inflight (-) SetToBag({p})

\* p is an add that the backend served, for a parent that the forest of the
\* store does not hold.
MissingParentAdd(p) ==
  /\ p.op = "add"
  /\ p.resp # Failure
  /\ p.id # NullId
  /\ p.id \notin IdsOf(comments)

\* C9: when an add that the backend served settles and its parent_id occurs
\* nowhere in the forest of the store, the forest stays as it was (the new node
\* appears nowhere) and error is not set: null stays null.
C9_MissingParentNoOp ==
  [][\A p \in BagToSet(inflight) :
       (MissingParentAdd(p) /\ Settles(p)) =>
         /\ comments' = comments
         /\ error' = error
         /\ handleResponse(p.resp).id \notin IdsOf(comments')]_vars

\* C9 happens: such an add is about to settle, the forest is not empty and
\* error is null.
C9_Witness ==
  /\ error = NoError
  /\ comments # <<>>
  /\ \E p \in BagToSet(inflight) : MissingParentAdd(p)

\* What C10 says of a step: the forest changes only when a call that the
\* backend served settles ...
OnlyAfterSuccess ==
  comments' # comments =>
    \E p \in BagToSet(inflight) : p.resp # Failure /\ Settles(p)

\* ... a call that failed leaves the forest, sets error and clears isLoading ...
FailureLeavesForest ==
  \A p \in BagToSet(inflight) :
    (p.resp = Failure /\ Settles(p)) =>
      comments' = comments /\ error' # NoError /\ isLoading' = FALSE

\* ... and a call that the backend served is applied to the forest: nothing
\* is caught, and a created node whose parent the forest holds is in it.
SuccessIsApplied ==
  \A p \in BagToSet(inflight) :
    (p.resp # Failure /\ Settles(p)) =>
      /\ error' = error
      /\ isLoading' = FALSE
      /\ (p.op = "add" /\ (p.id = NullId \/ p.id \in IdsOf(comments)))
           => handleResponse(p.resp).id \in IdsOf(comments')

\* C10: for add, update and delete the forest is changed once per request,
\* only after the backend call succeeded; a failed call leaves the forest as
\* it was, sets error and clears isLoading.
C10_SyncAfterSuccess ==
  [][OnlyAfterSuccess /\ FailureLeavesForest /\ SuccessIsApplied]_vars

\* The two parts of C10 that the store keeps.
C10_OnlyAfterSuccess == [][OnlyAfterSuccess]_vars
C10_FailureLeavesForest == [][FailureLeavesForest]_vars

(***************************************************************************)
(* More properties of the helpers (SpecSync).                              *)
(***************************************************************************)
\* The last call replaced a node that the forest holds.
ReplacedNode ==
  /\ call.op = "replace"
  /\ call.id \in IdsOf(call.before)
  /\ UniqueIds(call.before)

\* C11: replacing N by N' puts N' at N's index in N's sibling list (the root
\* sequence or the replies of the same parent); the siblings keep their order
\* and every node outside N is as it was.
C11_ReplaceKeepsPosition ==
  ReplacedNode =>
    LET path == PathOf(call.before, call.id)
    IN /\ path \in Paths(comments)
       /\ NodeAt(comments, path) = call.node
       /\ comments = WithNodeAt(call.before, path, call.node)

\* C11 happens: the replaced node was nested and not the first of its siblings.
C11_Witness ==
  /\ ReplacedNode
  /\ LET path == PathOf(call.before, call.id)
     IN Len(path) >= 2 /\ path[Len(path)] >= 2
  /\ comments # call.before

(***************************************************************************)
(* Adds only, on a forest that was fetched: `call` keeps that forest and   *)
(* the ids of the adds that completed, in the order of their completion.   *)
(***************************************************************************)
\* The forests a fetch may have left in the store: none, one or two comments,
\* in either order or nested.
FetchedForests ==
  {<<>>,
   <<Comment(1, NullId, "a")>>,
   <<Comment(1, NullId, "a"), Comment(2, NullId, "a")>>,
   <<Comment(2, NullId, "a"), Comment(1, NullId, "a")>>,
   <<[Comment(1, NullId, "a") EXCEPT !.replies = <<Comment(2, 1, "a")>>]>>}

InitAdds ==
  \E F \in FetchedForests :
    /\ comments = F
    /\ isLoading = FALSE
    /\ error = NoError
    /\ inflight = EmptyBag
    /\ server = [forest |-> F, nextId |-> Cardinality(IdsOf(F)) + 1]
    /\ call = [op |-> "adds", fetched |-> F, order |-> <<>>]
    /\ createSearchStore
    /\ createAuthStore
    /\ mountComponents

\* The add of pending call p completed with success.
Completed(p) ==
  /\ call' = IF p.resp # Failure
             THEN [call EXCEPT !.order = Append(@, handleResponse(p.resp).id)]
             ELSE call
  /\ UNCHANGED <<searchVars, authVars, uiVars>>

NextAdds ==
  \/ \E parent_id \in {NullId} \cup Shown, token \in BOOLEAN :
       addComment(parent_id, "a", token) /\ UNCHANGED <<call, searchVars, authVars, uiVars>>
  \/ \E p \in BagToSet(inflight) : \E o \in Outcomes(p) :
       addCommentSettled(p, o) /\ Completed(p)

SpecAdds == InitAdds /\ [][NextAdds]_vars

\* When the add of this id completed: 0 for a comment that was fetched.
CompletedAt(id) ==
  IF \E i \in 1..Len(call.order) : call.order[i] = id
  THEN CHOOSE i \in 1..Len(call.order) : call.order[i] = id
  ELSE 0

\* C12: after any adds, every added comment is in the forest, and in each
\* sibling list the added comments come before the fetched ones, the one
\* whose add completed last first; the fetched ones keep their order.
C12_MostRecentFirst ==
  /\ \A i \in 1..Len(call.order) : CountOf(comments, call.order[i]) = 1
  /\ OrderPairs(call.fetched) \subseteq OrderPairs(comments)
  /\ \A pr \in OrderPairs(comments) :
       IF CompletedAt(pr[2]) > 0
       THEN CompletedAt(pr[1]) > CompletedAt(pr[2])
       ELSE CompletedAt(pr[1]) > 0 \/ pr \in OrderPairs(call.fetched)

\* C12 happens: two adds completed against the order of their requests and
\* stand before a fetched sibling.
C12_Witness ==
  /\ Settled
  /\ \E pr \in OrderPairs(comments) :
       /\ pr[1] < pr[2]
       /\ CompletedAt(pr[1]) > CompletedAt(pr[2])
       /\ CompletedAt(pr[2]) > 0
  /\ \E pr \in OrderPairs(comments) :
       CompletedAt(pr[1]) > 0 /\ CompletedAt(pr[2]) = 0

(***************************************************************************)
(* The helpers as JavaScript runs them: on a heap of arrays and objects.   *)
(* A heap is a sequence of cells and a reference is an index into it.  An  *)
(* array is the cell [items |-> references]; a comment is a cell with the  *)
(* fields of a Comment whose replies, when present, is a reference to an   *)
(* array.  A spread, a map and a reduce step allocate; nothing here writes *)
(* to a cell that exists.                                                  *)
(***************************************************************************)
\* updatedComment: null, as a reference
NullRef == 0

Alloc(heap, cell) == [heap |-> Append(heap, cell), ref |-> Len(heap) + 1]

RECURSIVE LoadForest(_, _)
RECURSIVE LoadItems(_, _, _)
\* A value as response.json() and the store hold it: every array and every
\* object a cell of its own.
LoadNode(heap, node) ==
  IF HasReplies(node)
  THEN LET r == LoadForest(heap, node.replies)
       IN Alloc(r.heap, [node EXCEPT !.replies = r.ref])
  ELSE Alloc(heap, node)

LoadItems(heap, F, refs) ==
  IF F = <<>> THEN [heap |-> heap, refs |-> refs]
  ELSE LET n == LoadNode(heap, Head(F))
       IN LoadItems(n.heap, Tail(F), Append(refs, n.ref))

LoadForest(heap, F) ==
  LET r == LoadItems(heap, F, <<>>)
  IN Alloc(r.heap, [items |-> r.refs])

RECURSIVE DerefForest(_, _)
RECURSIVE DerefNode(_, _)
\* The structure a reference denotes.
DerefNode(heap, ref) ==
  LET object == heap[ref]
  IN IF "replies" \in DOMAIN object
     THEN [object EXCEPT !.replies = DerefForest(heap, object.replies)]
     ELSE object

DerefForest(heap, ref) ==
  [i \in 1..Len(heap[ref].items) |-> DerefNode(heap, heap[ref].items[i])]

RECURSIVE updateCommentRecursiveH(_, _, _, _)
RECURSIVE reduceCommentsH(_, _, _, _, _)
\* The reduce callback of updateCommentRecursive, from accumulator acc over
\* the elements left.
reduceCommentsH(heap, acc, items, commentId, updatedComment) ==
  IF items = <<>> THEN [heap |-> heap, ref |-> acc]
  ELSE
    LET comment == heap[Head(items)]
        next ==
          IF comment.id = commentId
          THEN IF updatedComment = NullRef
               THEN [heap |-> heap, ref |-> acc]
               ELSE Alloc(heap, [items |-> Append(heap[acc].items, updatedComment)])
          ELSE IF "replies" \in DOMAIN comment
                  /\ Len(heap[comment.replies].items) > 0
               THEN LET r == updateCommentRecursiveH(heap, comment.replies,
                                                     commentId, updatedComment)
                        o == Alloc(r.heap, [comment EXCEPT !.replies = r.ref])
                    IN Alloc(o.heap, [items |-> Append(heap[acc].items, o.ref)])
               ELSE Alloc(heap, [items |-> Append(heap[acc].items, Head(items))])
    IN reduceCommentsH(next.heap, next.ref, Tail(items), commentId, updatedComment)

\* comments.reduce(..., [])
updateCommentRecursiveH(heap, comments_, commentId, updatedComment) ==
  LET initial == Alloc(heap, [items |-> <<>>])
  IN reduceCommentsH(initial.heap, initial.ref, heap[comments_].items,
                     commentId, updatedComment)

\* A slip: the transform is `parent.replies.unshift(newComment); return parent`.
prependReplyH_Unshift(heap, parent, newComment) ==
  [heap |-> [heap EXCEPT ![heap[parent].replies].items = <<newComment>> \o @],
   ref |-> parent]

\* (parent) => ({ ...parent, replies: [newComment, ...parent.replies] })
prependReplyH(heap, parent, newComment) ==
  LET replies == Alloc(heap, [items |-> <<newComment>> \o
                                        heap[heap[parent].replies].items])
  IN Alloc(replies.heap, [heap[parent] EXCEPT !.replies = replies.ref])

RECURSIVE updateCommentRepliesH(_, _, _, _)
RECURSIVE mapCommentsH(_, _, _, _, _)
\* The map callback of updateCommentReplies, with the elements mapped so far.
mapCommentsH(heap, mapped, items, commentId, newComment) ==
  IF items = <<>> THEN Alloc(heap, [items |-> mapped])
  ELSE
    LET comment == heap[Head(items)]
        next ==
          IF comment.id = commentId
          THEN prependReplyH(heap, Head(items), newComment)
          ELSE IF "replies" \in DOMAIN comment
                  /\ Len(heap[comment.replies].items) > 0
               THEN LET r == updateCommentRepliesH(heap, comment.replies,
                                                   commentId, newComment)
                    IN Alloc(r.heap, [comment EXCEPT !.replies = r.ref])
               ELSE [heap |-> heap, ref |-> Head(items)]
    IN mapCommentsH(next.heap, Append(mapped, next.ref), Tail(items),
                    commentId, newComment)

\* comments.map(...)
updateCommentRepliesH(heap, comments_, commentId, newComment) ==
  mapCommentsH(heap, <<>>, heap[comments_].items, commentId, newComment)

\* A use of a helper on the heap: the heap and the store's forest before it,
\* the heap after it and the forest it returned.
CalledH(op, id, heap, root, arg, r) ==
  [op |-> op, id |-> id, heap |-> heap, root |-> root, arg |-> arg,
   after |-> r.heap, result |-> r.ref]

\* The add operations: [newComment, ...comments] for a root comment,
\* updateCommentReplies for a reply.
heapInsert(node) ==
  /\ node.id \notin IdsOf(comments)
  /\ node.parent_id # node.id
  /\ ~insertCommentThrows(comments, node.parent_id)
  /\ LET f == LoadForest(<<>>, comments)
         n == LoadNode(f.heap, node)
         r == IF node.parent_id = NullId
              THEN Alloc(n.heap, [items |-> <<n.ref>> \o n.heap[f.ref].items])
              ELSE updateCommentRepliesH(n.heap, f.ref, node.parent_id, n.ref)
     IN /\ comments' = DerefForest(r.heap, r.ref)
        /\ call' = CalledH("insert", node.parent_id, n.heap, f.ref, n.ref, r)
  /\ UNCHANGED <<isLoading, error, inflight, server, searchVars,
               authVars, uiVars>>

\* updateComment: updateCommentRecursive(comments, commentId, updatedComment)
heapReplace(commentId, updatedComment) ==
  /\ LET f == LoadForest(<<>>, comments)
         n == LoadNode(f.heap, updatedComment)
         r == updateCommentRecursiveH(n.heap, f.ref, commentId, n.ref)
     IN /\ comments' = DerefForest(r.heap, r.ref)
        /\ call' = CalledH("replace", commentId, n.heap, f.ref, n.ref, r)
  /\ UNCHANGED <<isLoading, error, inflight, server, searchVars,
               authVars, uiVars>>

\* deleteComment: updateCommentRecursive(comments, commentId, null)
heapRemove(commentId) ==
  /\ LET f == LoadForest(<<>>, comments)
         r == updateCommentRecursiveH(f.heap, f.ref, commentId, NullRef)
     IN /\ comments' = DerefForest(r.heap, r.ref)
        /\ call' = CalledH("remove", commentId, f.heap, f.ref, NullRef, r)
  /\ UNCHANGED <<isLoading, error, inflight, server, searchVars,
               authVars, uiVars>>

NextHeap ==
  \/ \E id \in SyncIds, parent_id \in {NullId} \cup SyncIds :
       heapInsert(Comment(id, parent_id, "a"))
  \/ \E commentId \in SyncIds : \E updatedComment \in Replacements(commentId) :
       heapReplace(commentId, updatedComment)
  \/ \E commentId \in SyncIds : heapRemove(commentId)

SpecHeap == Init /\ [][NextHeap]_vars

\* The heap helpers return what the helpers on values return.
HeapAgrees ==
  call.op # "none" =>
    LET before == DerefForest(call.heap, call.root)
    IN comments =
         IF call.op = "insert"
         THEN insertComment(before, call.id, DerefNode(call.heap, call.arg))
         ELSE IF call.op = "replace"
         THEN updateCommentRecursive(before, call.id,
                                     DerefNode(call.heap, call.arg))
         ELSE updateCommentRecursive(before, call.id, NullComment)

\* C13: a helper writes to no cell that existed before the call, so the forest
\* given to it, its nodes and their replies arrays are as they were, a
\* reference to it taken before the call denotes the same structure after,
\* and what the helper returns is a new array.
C13_NoInputMutation ==
  call.op # "none" =>
    /\ Len(call.after) >= Len(call.heap)
    /\ \A ref \in 1..Len(call.heap) : call.after[ref] = call.heap[ref]
    /\ DerefForest(call.after, call.root) = DerefForest(call.heap, call.root)
    /\ call.result > Len(call.heap)

\* C13 happens: a reply was put under a nested parent that had replies, and
\* the forest returned differs from the one given.
C13_Witness ==
  /\ call.op = "insert"
  /\ call.id # NullId
  /\ LET before == DerefForest(call.heap, call.root)
     IN /\ call.id \in IdsOf(before)
        /\ NodeOf(before, call.id).replies # <<>>
        /\ DerefForest(call.after, call.result) # before
        /\ \E path \in Paths(before) : Len(path) >= 2

\* ... and a nested node was replaced or removed.
C13_WitnessRecursive ==
  /\ call.op \in {"replace", "remove"}
  /\ LET before == DerefForest(call.heap, call.root)
     IN /\ call.id \in IdsOf(before)
        /\ Len(PathOf(before, call.id)) >= 2
        /\ DerefForest(call.after, call.result) # before

(***************************************************************************)
(* Two mutations in flight together, both served by the backend, on a      *)
(* forest that was fetched: `call` keeps the two requests.                 *)
(***************************************************************************)
InitRace ==
  \E F \in FetchedForests :
    /\ comments = F
    /\ isLoading = FALSE
    /\ error = NoError
    /\ inflight = EmptyBag
    /\ server = [forest |-> F, nextId |-> Cardinality(IdsOf(F)) + 1]
    /\ call = [op |-> "race", fetched |-> F, sent |-> <<>>]
    /\ createSearchStore
    /\ createAuthStore
    /\ mountComponents

\* A mutation starts while nothing has settled yet, and the backend serves it.
Raced ==
  /\ Len(call.sent) < 2
  /\ BagCardinality(inflight) = Len(call.sent)
  /\ \A p \in BagToSet(inflight') : p.resp # Failure
  /\ call' = [call EXCEPT !.sent =
                Append(@, CHOOSE p \in BagToSet(inflight' (-) inflight) : TRUE)]
  /\ UNCHANGED <<searchVars, authVars, uiVars>>

NextRace ==
  \/ \E parent_id \in {NullId} \cup Shown :
       addComment(parent_id, "a", TRUE) /\ Raced
  \/ \E commentId \in Shown : updateComment(commentId, "b", TRUE) /\ Raced
  \/ \E commentId \in Shown : deleteComment(commentId, TRUE) /\ Raced
  \/ \E p \in BagToSet(inflight) : \E o \in Outcomes(p) :
       /\ Len(call.sent) = 2
       /\ UNCHANGED <<call, searchVars, authVars, uiVars>>
       /\ \/ addCommentSettled(p, o)
          \/ updateCommentSettled(p, o)
          \/ deleteCommentSettled(p, o)

SpecRace == InitRace /\ [][NextRace]_vars

\* The forest shows what mutation p did, unless the other mutation deleted
\* the comment (the backend, which applied both, no longer holds it).
Reflected(p) ==
  LET id == IF p.op = "add" THEN handleResponse(p.resp).id ELSE p.id
  IN IF p.op = "delete" THEN id \notin IdsOf(comments)
     ELSE \/ id \notin IdsOf(server.forest)
          \/ /\ CountOf(comments, id) = 1
             /\ NodeOf(comments, id).content = p.content

\* C14: when two mutations were in flight together and both succeeded, then
\* in either order of their responses the forest of the store ends up
\* reflecting both: what the first to complete did is not overwritten by the
\* second.
C14_NoLostUpdate ==
  (Len(call.sent) = 2 /\ Settled) =>
    \A i \in 1..2 : Reflected(call.sent[i])

(***************************************************************************)
(* Completions that come late (SpecMutations, SpecRace).                   *)
(***************************************************************************)
\* p is an edit or a delete that the backend served, of a comment that the
\* forest of the store no longer holds.
LateCompletion(p) ==
  /\ p.op \in {"update", "delete"}
  /\ p.resp # Failure
  /\ p.id \notin IdsOf(comments)

\* C15: when a delete or an edit of a comment completes after the comment is
\* gone from the forest of the store (deleted itself, or with an ancestor),
\* the completion leaves the forest as it is and sets no error.
C15_LateCompletionNoOp ==
  [][\A p \in BagToSet(inflight) :
       (LateCompletion(p) /\ Settles(p)) =>
         comments' = comments /\ error' = error]_vars

\* C15 happens: a delete is about to complete late, on a forest that still
\* holds other comments and with error null ...
C15_Witness ==
  /\ error = NoError
  /\ comments # <<>>
  /\ \E p \in BagToSet(inflight) : LateCompletion(p) /\ p.op = "delete"

\* ... and so is an edit.
C15_WitnessEdit ==
  /\ error = NoError
  /\ comments # <<>>
  /\ \E p \in BagToSet(inflight) : LateCompletion(p) /\ p.op = "update"

\* Its consequence (SpecRace): two deletes that were in flight together and
\* both succeeded leave the forest without the two subtrees, in whichever
\* order they complete.
C15_DeletesCommute ==
  (/\ Len(call.sent) = 2
   /\ Settled
   /\ \A i \in 1..2 : call.sent[i].op = "delete") =>
    /\ error = NoError
    /\ comments =
         updateCommentRecursive(
           updateCommentRecursive(call.fetched, call.sent[1].id, NullComment),
           call.sent[2].id, NullComment)
    /\ comments =
         updateCommentRecursive(
           updateCommentRecursive(call.fetched, call.sent[2].id, NullComment),
           call.sent[1].id, NullComment)

(***************************************************************************)
(* An edit and then a reply to the edited comment, on a forest that was    *)
(* fetched and added to: `call` keeps the comment edited, the forest       *)
(* before the edit and the id of the reply.                                *)
(***************************************************************************)
InitEditReply ==
  \E F \in FetchedForests :
    /\ comments = F
    /\ isLoading = FALSE
    /\ error = NoError
    /\ inflight = EmptyBag
    /\ server = [forest |-> F, nextId |-> Cardinality(IdsOf(F)) + 1]
    /\ call = [op |-> "edit", edited |-> NullId, before |-> <<>>,
               reply |-> NullId]
    /\ createSearchStore
    /\ createAuthStore
    /\ mountComponents

\* The request just sent was served by the backend.
Served == \A p \in BagToSet(inflight') : p.resp # Failure

NextEditReply ==
  \/ \E parent_id \in {NullId} \cup Shown :
       /\ call.edited = NullId
       /\ addComment(parent_id, "a", TRUE)
       /\ UNCHANGED <<call, searchVars, authVars, uiVars>>
  \/ \E commentId \in Shown :
       /\ call.edited = NullId
       /\ Settled
       /\ updateComment(commentId, "b", TRUE)
       /\ Served
       /\ call' = [call EXCEPT !.edited = commentId, !.before = comments]
       /\ UNCHANGED <<searchVars, authVars, uiVars>>
  \/ /\ call.edited # NullId
     /\ call.reply = NullId
     /\ Settled
     /\ addComment(call.edited, "a", TRUE)
     /\ Served
     /\ call' = [call EXCEPT !.reply = server.nextId]
     /\ UNCHANGED <<searchVars, authVars, uiVars>>
  \/ \E p \in BagToSet(inflight) : \E o \in Outcomes(p) :
       /\ UNCHANGED <<call, searchVars, authVars, uiVars>>
       /\ \/ addCommentSettled(p, o)
          \/ updateCommentSettled(p, o)

SpecEditReply == InitEditReply /\ [][NextEditReply]_vars

\* C16: after an edit of N succeeded, a reply to N that succeeds completes
\* without error, and N's replies are then the new reply followed by the
\* replies N had before the edit.
C16_EditThenReply ==
  (call.reply # NullId /\ Settled) =>
    /\ error = NoError
    /\ call.edited \in IdsOf(comments)
    /\ HasReplies(NodeOf(comments, call.edited))
    /\ NodeOf(comments, call.edited).replies =
         <<Comment(call.reply, call.edited, "a")>>
           \o NodeOf(call.before, call.edited).replies

(***************************************************************************)
(* SpecSearch: the navigation bar calls quickSearch as the user types.     *)
(* `call` keeps the calls of quickSearch with their times, the runs of     *)
(* performQuickSearch with their times, and the responses in the order     *)
(* they arrived.                                                           *)
(***************************************************************************)
InitSearch ==
  /\ comments = <<>>
  /\ isLoading = FALSE
  /\ error = NoError
  /\ inflight = EmptyBag
  /\ server = [forest |-> <<>>, nextId |-> 1]
  /\ call = [op |-> "search", asked |-> <<>>, ran |-> <<>>, done |-> <<>>]
  /\ createSearchStore
  /\ createAuthStore
  /\ mountComponents

NextSearch ==
  \/ \E query \in Queries :
       /\ Len(call.asked) < MaxQuickSearches
       /\ quickSearch(query)
       /\ call' = [call EXCEPT
                     !.asked = Append(@, [at |-> now, query |-> query])]
  \/ \E t \in timers :
       /\ timerFires(t)
       /\ call' = [call EXCEPT
                     !.ran = Append(@, [at |-> now, query |-> t.args,
                                        requested |-> searching' # searching])]
  \/ \E p \in BagToSet(searching), ok \in BOOLEAN :
       /\ performQuickSearchSettled(p, ok)
       /\ call' = [call EXCEPT
                     !.done = Append(@, [query |-> p.query, ok |-> ok])]
  \/ Elapse /\ UNCHANGED call

SpecSearch == InitSearch /\ [][NextSearch]_vars

\* Call i of quickSearch is the last of its burst: no call followed it in
\* less than `wait` milliseconds.
LastOfBurst(i) ==
  \/ i = Len(call.asked)
  \/ call.asked[i + 1].at - call.asked[i].at >= wait

\* The calls whose run of performQuickSearch has taken place: the last call
\* of each burst, the latest call once its timer is no longer pending.
RunsDue ==
  SelectSeq([i \in 1..Len(call.asked) |-> i],
            LAMBDA i : /\ LastOfBurst(i)
                       /\ i = Len(call.asked) => timeout \notin timers)

\* C17: performQuickSearch has run exactly once for each burst of quickSearch
\* calls, `wait` (300) milliseconds after the burst's last call and with that
\* call's query, and a search request was sent only for those runs (and only
\* when the query is not blank): no run and no request for an earlier query
\* of a burst.
C17_DebounceCoalesces ==
  call.ran = [k \in 1..Len(RunsDue) |->
                LET asked == call.asked[RunsDue[k]]
                IN [at |-> asked.at + wait, query |-> asked.query,
                    requested |-> trim(asked.query) # <<>>]]

\* A burst of two calls with different queries, less than `wait` apart, whose
\* run has sent its request.
C17_Witness ==
  /\ Len(call.asked) >= 2
  /\ call.asked[1].at < call.asked[2].at
  /\ call.asked[2].at - call.asked[1].at < wait
  /\ call.asked[1].query # call.asked[2].query
  /\ trim(call.asked[1].query) # <<>>
  /\ LastOfBurst(2)
  /\ Len(call.ran) >= 1
  /\ call.ran[1].requested

\* Two bursts: each has had its run.
C17_WitnessTwoBursts ==
  /\ Len(call.asked) = 3
  /\ ~LastOfBurst(1)
  /\ LastOfBurst(2)
  /\ Len(call.ran) = 2

\* The runs of performQuickSearch that sent a request, in the order sent.
Issued == SelectSeq(call.ran, LAMBDA r : r.requested)

\* Every request sent has completed, every response was ok, and the latest
\* run of performQuickSearch sent a request.
AllAnswered ==
  /\ searching = EmptyBag
  /\ Issued # <<>>
  /\ call.ran[Len(call.ran)].requested
  /\ \A k \in 1..Len(call.done) : call.done[k].ok

\* C18: once all quick-search requests have completed (their responses ok, in
\* whatever order they arrived), quickResults holds the items returned for
\* the query issued most recently.
C18_LatestQueryWins ==
  AllAnswered =>
    search.quickResults = backendSearch(Issued[Len(Issued)].query)

\* The same when the responses arrived in the order the requests were sent.
C18_InOrder ==
  (AllAnswered /\
   call.done = [k \in 1..Len(Issued) |-> [query |-> Issued[k].query,
                                          ok |-> TRUE]])
    => search.quickResults = backendSearch(Issued[Len(Issued)].query)

\* Two requests for different queries were answered in the order sent.
C18_InOrderWitness ==
  /\ AllAnswered
  /\ Len(Issued) = 2
  /\ Issued[1].query # Issued[2].query
  /\ call.done = [k \in 1..2 |-> [query |-> Issued[k].query, ok |-> TRUE]]

(***************************************************************************)
(* SpecItems: CommentsSection is shown for one content item after another  *)
(* and fetches the comments of each.  `call` keeps the item on display,    *)
(* the fetches issued and the fetches completed, in order.                 *)
(***************************************************************************)
\* CommentsSection issues at most MaxFetches fetches.
MaxFetches == 3

\* The contentId prop: 0 is an id the effect skips.
ContentIds == 0..2

\* GET /comments/game/{id} (news, discussion): each content item has its own
\* comments.
backendComments(contentId) == <<Comment(contentId, NullId, "a")>>

\* fetchGameComments(gameId), fetchNewsComments(newsId),
\* fetchDiscussionComments(discussionId): up to the await of fetch().
fetchItemComments(contentId, served) ==
  /\ BagCardinality(inflight) < MaxInFlight
  /\ isLoading' = TRUE
  /\ error' = NoError
  /\ await(Pending("fetch", contentId, "",
                   IF served THEN JsonResponse(backendComments(contentId))
                   ELSE Failure))
  /\ UNCHANGED <<comments, server>>

InitItems ==
  /\ comments = <<>>
  /\ isLoading = FALSE
  /\ error = NoError
  /\ inflight = EmptyBag
  /\ server = [forest |-> <<>>, nextId |-> 1]
  /\ call = [op |-> "items", contentId |-> 0, issued |-> <<>>, done |-> <<>>]
  /\ createSearchStore
  /\ createAuthStore
  /\ mountComponents

\* The effect of CommentsSection on mount and when contentId, contentType or
\* loadingAttempt changes.
loadComments(contentId, served) ==
  /\ Len(call.issued) < MaxFetches
  /\ IF contentId <= 0
     THEN /\ call' = [call EXCEPT !.contentId = contentId]
          /\ UNCHANGED <<comments, isLoading, error, inflight, server>>
     ELSE /\ fetchItemComments(contentId, served)
          /\ call' = [call EXCEPT
                        !.contentId = contentId,
                        !.issued = Append(@, [contentId |-> contentId,
                                              served |-> served])]
  /\ UNCHANGED <<searchVars, authVars, uiVars>>

NextItems ==
  \/ \E contentId \in ContentIds, served \in BOOLEAN :
       loadComments(contentId, served)
  \/ \E p \in BagToSet(inflight) : \E o \in Outcomes(p) :
       /\ fetchCommentsSettled(p, o)
       /\ call' = [call EXCEPT !.done = Append(@, p.id)]
       /\ UNCHANGED <<searchVars, authVars, uiVars>>

SpecItems == InitItems /\ [][NextItems]_vars

\* Every fetch issued has completed, each with the backend's forest, and the
\* item on display is the one fetched last.
AllFetched ==
  /\ inflight = EmptyBag
  /\ call.issued # <<>>
  /\ \A k \in 1..Len(call.issued) : call.issued[k].served
  /\ call.contentId = call.issued[Len(call.issued)].contentId

\* C19: when the fetches CommentsSection issued (for item A, then for item B
\* before the first completed) have all completed, in whatever order, the
\* store's comments are the forest returned for the item on display, the one
\* fetched last.
C19_CommentsOfItemOnDisplay ==
  AllFetched => comments = backendComments(call.contentId)

\* The same when the fetches completed in the order they were issued.
C19_InOrder ==
  (AllFetched /\
   call.done = [k \in 1..Len(call.issued) |-> call.issued[k].contentId])
    => comments = backendComments(call.contentId)

\* Fetches for two different items, completed in the order issued.
C19_InOrderWitness ==
  /\ AllFetched
  /\ Len(call.issued) = 2
  /\ call.issued[1].contentId # call.issued[2].contentId
  /\ call.done = <<call.issued[1].contentId, call.issued[2].contentId>>

\* C20: in every reachable state of the comment store, isLoading is true when
\* at least one fetch, add, update or delete has been started and has not yet
\* completed, and false when none is in flight.
C20_IsLoadingTracksInFlight == isLoading <=> inflight # EmptyBag

\* The half that holds: with no operation in flight isLoading is false.
C20_IdleNotLoading == inflight = EmptyBag => ~isLoading

\* An operation has completed and none is in flight.
C20_IdleWitness ==
  /\ inflight = EmptyBag
  /\ comments # <<>>
  /\ ~isLoading

(***************************************************************************)
(* SpecAuth: the auth store from the load of the page on.  setToken and    *)
(* setUserData have no caller but login and fetchUser.                     *)
(***************************************************************************)
\* What localStorage may hold when the page loads.
Storages ==
  {[token |-> token, userData |-> userData] :
     token \in {NullToken} \cup Tokens, userData \in {NoUser} \cup Users}

\* The page loads: the store is created from localStorage, and with a token
\* there the module calls fetchUser().
InitAuth ==
  /\ comments = <<>>
  /\ isLoading = FALSE
  /\ error = NoError
  /\ inflight = EmptyBag
  /\ server = [forest |-> <<>>, nextId |-> 1]
  /\ call = NoCall
  /\ createSearchStore
  /\ mountComponents
  /\ localStorage \in Storages
  /\ auth = fetchUserFrom(loadInitialState, EmptyBag).state
  /\ authCalls = fetchUserFrom(loadInitialState, EmptyBag).calls

NextAuth ==
  \/ login /\ UNCHANGED <<comments, isLoading, error, inflight, server, call, searchVars, uiVars>>
  \/ \E p \in BagToSet(authCalls), ok \in BOOLEAN, token \in Tokens :
       loginSettled(p, ok, token)
       /\ UNCHANGED <<comments, isLoading, error, inflight, server, call, searchVars, uiVars>>
  \/ fetchUser /\ UNCHANGED <<comments, isLoading, error, inflight, server, call, searchVars, uiVars>>
  \/ \E p \in BagToSet(authCalls), status \in Statuses, userData \in Users :
       fetchUserSettled(p, status, userData)
       /\ UNCHANGED <<comments, isLoading, error, inflight, server, call, searchVars, uiVars>>
  \/ logout /\ UNCHANGED <<comments, isLoading, error, inflight, server, call, searchVars, uiVars>>
  \/ \E p \in BagToSet(authCalls) :
       logoutSettled(p)
       /\ UNCHANGED <<comments, isLoading, error, inflight, server, call, searchVars, uiVars>>

SpecAuth == InitAuth /\ [][NextAuth]_vars

\* C21: in every reachable state of the auth store, whatever the interleaving
\* of login, fetchUser (and the arrival of its response) and logout,
\* isAuthenticated = true implies that token is not null.
C21_AuthenticatedImpliesToken ==
  auth.isAuthenticated => auth.token # NullToken

\* The only step that breaks it: the response of a fetchUser that was sent
\* with a token arrives with status 200 after a logout has cleared the token.
C21_OnlyLateFetchUser ==
  [][(C21_AuthenticatedImpliesToken /\ ~C21_AuthenticatedImpliesToken')
       => /\ auth.token = NullToken
          /\ BagIn([op |-> "fetchUser"], authCalls)
          /\ ~BagIn([op |-> "fetchUser"], authCalls')
          /\ auth'.userData # NoUser]_vars

(***************************************************************************)
(* SpecGuarded: the mutations of the comment store with the token that     *)
(* getAuthToken finds, on a forest that was fetched; the user may log out  *)
(* meanwhile.  The auth store and localStorage may differ when the page    *)
(* loads in one tab and another tab has logged in or out since.            *)
(***************************************************************************)
InitGuarded ==
  \E F \in FetchedForests, storeToken, storageToken \in {NullToken, "t1"} :
    /\ comments = F
    /\ isLoading = FALSE
    /\ error = NoError
    /\ inflight = EmptyBag
    /\ server = [forest |-> F, nextId |-> Cardinality(IdsOf(F)) + 1]
    /\ call = NoCall
    /\ createSearchStore
    /\ mountComponents
    /\ localStorage = [token |-> storageToken, userData |-> NoUser]
    /\ auth = [token |-> storeToken, userData |-> NoUser,
               isAuthenticated |-> FALSE, isLoading |-> FALSE,
               error |-> NoError]
    /\ authCalls = EmptyBag

NextGuarded ==
  \/ \E parent_id \in {NullId} \cup Shown :
       /\ addComment(parent_id, "a", getAuthToken # NullToken)
       /\ UNCHANGED <<call, searchVars, authVars, uiVars>>
  \/ \E commentId \in Shown :
       /\ updateComment(commentId, "b", getAuthToken # NullToken)
       /\ UNCHANGED <<call, searchVars, authVars, uiVars>>
  \/ \E commentId \in Shown :
       /\ deleteComment(commentId, getAuthToken # NullToken)
       /\ UNCHANGED <<call, searchVars, authVars, uiVars>>
  \/ \E p \in BagToSet(inflight) : \E o \in Outcomes(p) :
       \/ addCommentSettled(p, o) /\ UNCHANGED <<call, searchVars, authVars, uiVars>>
       \/ updateCommentSettled(p, o) /\ UNCHANGED <<call, searchVars, authVars, uiVars>>
       \/ deleteCommentSettled(p, o) /\ UNCHANGED <<call, searchVars, authVars, uiVars>>
  \/ /\ logout
     /\ UNCHANGED <<comments, isLoading, error, inflight, server, call, searchVars, uiVars>>
  \/ \E p \in BagToSet(authCalls) :
       /\ logoutSettled(p)
       /\ UNCHANGED <<comments, isLoading, error, inflight, server, call, searchVars, uiVars>>

SpecGuarded == InitGuarded /\ [][NextGuarded]_vars

\* Neither the auth store nor localStorage holds a token.
NoTokenAnywhere == auth.token = NullToken /\ localStorage.token = NullToken

\* A step of the comment store that completes no call: an add, update or
\* delete is called.
MutationCalled ==
  /\ authVars' = authVars
  /\ BagCardinality(inflight') >= BagCardinality(inflight)

LoggedOutMessages ==
  {"You must be logged in to add a comment",
   "You must be logged in to update a comment",
   "You must be logged in to delete a comment"}

\* C22: when neither the auth store nor localStorage holds a token, a call of
\* add, update or delete sends no request (nothing more is in flight and the
\* backend is untouched), leaves the forest unchanged, sets error to the
\* 'You must be logged in ...' message and ends with isLoading = false.
C22_MutationsRequireToken ==
  [][(NoTokenAnywhere /\ MutationCalled)
       => /\ inflight' = inflight
          /\ server' = server
          /\ comments' = comments
          /\ error' \in LoggedOutMessages
          /\ isLoading' = FALSE]_vars

\* A mutation was refused on a forest that holds comments, after the user
\* has logged out.
C22_Witness ==
  /\ NoTokenAnywhere
  /\ comments # <<>>
  /\ error \in LoggedOutMessages
  /\ ~isLoading
  /\ server.forest = comments

\* With a token in localStorage only, the mutation is sent.
C22_WitnessFallback ==
  /\ auth.token = NullToken
  /\ localStorage.token # NullToken
  /\ inflight # EmptyBag

(***************************************************************************)
(* SpecReply: CommentsSection and its CommentItems, shown to a logged-in   *)
(* user for a forest that was fetched.  `call` keeps user_id, the author   *)
(* of each comment (the Comment records of the model carry no author).     *)
(***************************************************************************)
InitReply ==
  \E F \in FetchedForests, viewer \in Users :
    \E user_id \in [1..MaxId -> Users] :
      /\ comments = F
      /\ isLoading = FALSE
      /\ error = NoError
      /\ inflight = EmptyBag
      /\ server = [forest |-> F, nextId |-> Cardinality(IdsOf(F)) + 1]
      /\ call = [op |-> "reply", user_id |-> user_id]
      /\ createSearchStore
      /\ mountComponents
      /\ localStorage = [token |-> "t1", userData |-> viewer]
      /\ auth = loadInitialState
      /\ authCalls = EmptyBag

\* CommentItem: the Reply button of a comment is rendered.
\*   isAuthenticated && !isOwnComment
ReplyButton(commentId) ==
  /\ commentId \in IdsOf(comments)
  /\ auth.token # NullToken
  /\ auth.userData # call.user_id[commentId]

\* CommentsSection: the comments under which it renders the reply form.
\*   comments.map(comment => ... replyingTo === comment.id && <form>)
ReplyForms ==
  {comments[i].id : i \in {j \in 1..Len(comments) : replyingTo = comments[j].id}}

\* onReply(comment.id): handleStartReply
handleStartReply(parentId) ==
  /\ ReplyButton(parentId)
  /\ replyingTo' = parentId
  /\ UNCHANGED <<comments, isLoading, error, inflight, server, call>>
  /\ UNCHANGED <<gameCarousel, newsCarousel, pagination>>
  /\ UNCHANGED <<searchVars, authVars>>

\* The Cancel button of the reply form.
handleCancelReply ==
  /\ ReplyForms # {}
  /\ replyingTo' = NullId
  /\ UNCHANGED <<comments, isLoading, error, inflight, server, call>>
  /\ UNCHANGED <<gameCarousel, newsCarousel, pagination>>
  /\ UNCHANGED <<searchVars, authVars>>

\* The Reply button of the form rendered under comment parentId, with a
\* content that is not blank; the comment the backend then creates is the
\* viewer's.
handleSubmitReply(parentId) ==
  /\ parentId \in ReplyForms
  /\ auth.token # NullToken
  /\ addComment(parentId, "a", getAuthToken # NullToken)
  /\ replyingTo' = NullId
  /\ call' = IF server'.nextId # server.nextId
             THEN [call EXCEPT !.user_id[server.nextId] = auth.userData]
             ELSE call
  /\ UNCHANGED <<gameCarousel, newsCarousel, pagination>>
  /\ UNCHANGED <<searchVars, authVars>>

NextReply ==
  \/ \E parentId \in 1..MaxId : handleStartReply(parentId)
  \/ handleCancelReply
  \/ \E parentId \in 1..MaxId : handleSubmitReply(parentId)
  \/ \E p \in BagToSet(inflight) : \E o \in Outcomes(p) :
       /\ addCommentSettled(p, o)
       /\ UNCHANGED <<call, searchVars, authVars, uiVars>>

SpecReply == InitReply /\ [][NextReply]_vars

\* C23: for every comment displayed in the tree, root or nested, once the
\* user has pressed Reply on it (replyingTo is its id) a reply form that
\* targets it is rendered.
C23_ReplyFormAtAnyDepth ==
  replyingTo \in IdsOf(comments) => ReplyForms = {replyingTo}

\* The same for the comments at the root of the forest.
C23_ReplyFormAtRoot ==
  (\E i \in 1..Len(comments) : comments[i].id = replyingTo)
    => ReplyForms = {replyingTo}

\* Reply was pressed on a root comment that has a reply.
C23_RootWitness ==
  /\ \E i \in 1..Len(comments) :
       comments[i].id = replyingTo /\ comments[i].replies # <<>>
  /\ ReplyForms = {replyingTo}

\* Submitting the form calls the add operation with parent_id equal to the
\* id of the comment the form is rendered under.
C23_SubmitTargetsComment ==
  [][(replyingTo # NullId /\ replyingTo' = NullId /\ inflight' # inflight)
       => \E p \in BagToSet(inflight' (-) inflight) :
            p.op = "add" /\ p.id = replyingTo]_vars

(***************************************************************************)
(* SpecNavbar: the user edits the search box of the navigation bar, away   *)
(* from the search page, with the input focused.                           *)
(***************************************************************************)
\* What the search box may hold.
InputValues == {<<>>, <<"a">>, <<"a", "b">>, <<"a", "b", "c">>, <<"a", " ">>}

\* clearQuickSearch: set({ quickResults: [], quickSearchError: null })
clearQuickSearch ==
  search' = [search EXCEPT !.quickResults = <<>>, !.quickSearchError = NoError]

\* The effect of Navbar on [query, isSearchPage]: quickSearch(query) for a
\* trimmed query of 2 characters or more, clearQuickSearch() otherwise.
NavbarEffect(value) ==
  IF Len(trim(value)) >= 2
  THEN debounce(value) /\ UNCHANGED search
  ELSE clearQuickSearch /\ UNCHANGED <<timers, timeout>>

\* onChange of the input: setQuery(e.target.value), and the effect that the
\* new query triggers.
setQuery(value) ==
  /\ Due = {}
  /\ value # inputQuery
  /\ inputQuery' = value
  /\ NavbarEffect(value)
  /\ UNCHANGED <<now, searching>>

\* The X of the search box: setQuery(""), clearQuickSearch(), and the effect of
\* the empty query.
handleClearSearch ==
  /\ Due = {}
  /\ inputQuery # <<>>
  /\ inputQuery' = <<>>
  /\ clearQuickSearch
  /\ UNCHANGED <<timers, timeout, now, searching>>

NextNavbar ==
  \/ \E value \in InputValues :
       /\ setQuery(value)
       /\ UNCHANGED <<comments, isLoading, error, inflight, server, call, authVars, uiVars>>
  \/ /\ handleClearSearch
     /\ UNCHANGED <<comments, isLoading, error, inflight, server, call, authVars, uiVars>>
  \/ \E t \in timers : timerFires(t) /\ UNCHANGED call
  \/ \E p \in BagToSet(searching), ok \in BOOLEAN :
       performQuickSearchSettled(p, ok) /\ UNCHANGED call
  \/ Elapse /\ UNCHANGED call

SpecNavbar == Init /\ [][NextNavbar]_vars

\* The trimmed query has fewer than 2 characters.
ShortQuery == Len(trim(inputQuery)) < 2

\* C24: while the trimmed query has fewer than 2 characters (clearQuickSearch
\* has run when it became so), quickResults is empty, even if a debounced
\* quick search or a quick-search request was pending at the time of the
\* clear.
C24_ClearedStaysCleared == ShortQuery => search.quickResults = <<>>

\* The clear itself empties quickResults: every step that makes the query
\* short, or keeps it short while the user edits it, leaves quickResults empty.
C24_ClearEmpties ==
  [][(inputQuery' # inputQuery /\ Len(trim(inputQuery')) < 2)
       => search'.quickResults = <<>>]_vars

\* The query became short while a quick-search request was pending.
C24_ClearWitness ==
  /\ ShortQuery
  /\ search.quickResults = <<>>
  /\ \E p \in BagToSet(searching) : TRUE

\* Only the response of a request that was pending fills quickResults while
\* the query is short.
C24_OnlyLateResponse ==
  [][(ShortQuery /\ search.quickResults = <<>> /\ search'.quickResults # <<>>)
       => \E p \in BagToSet(searching) : searching' = searching (-) SetToBag({p})]_vars

(***************************************************************************)
(* SpecCarousel: GameCarousel and NewsCarousel.  An item list is a         *)
(* sequence; currentIndex counts from 0 as in the code.  Every state is    *)
(* rendered; a render that reads an item the list does not hold throws,    *)
(* and the component then handles no further event.  The effects of a      *)
(* render run before the next event is handled.                            *)
(***************************************************************************)
\* A carousel is given at most MaxItems items.
MaxItems == 3

ItemLists == {[i \in 1..n |-> i] : n \in 0..MaxItems}

\* GameCarousel renders its current item: mediaItems[currentIndex].
GameRenders == Len(gameCarousel.mediaItems) > 0

\* The render of GameCarousel does not throw.
GameRendered ==
  GameRenders => gameCarousel.currentIndex < Len(gameCarousel.mediaItems)

\* The parent passes new screenshots and videos.
gameProps(list) ==
  /\ list # gameCarousel.media
  /\ gameCarousel.mediaItems = gameCarousel.media
  /\ GameRendered
  /\ gameCarousel' = [gameCarousel EXCEPT !.media = list]

\* useEffect on [screenshots, videos]: setMediaItems(combinedMedia)
gameEffect ==
  /\ gameCarousel.mediaItems # gameCarousel.media
  /\ GameRendered
  /\ gameCarousel' = [gameCarousel EXCEPT !.mediaItems = gameCarousel.media]

\* GameCarousel: handleNextImage
handleNextImage ==
  /\ gameCarousel.mediaItems = gameCarousel.media
  /\ GameRenders /\ GameRendered
  /\ gameCarousel' = [gameCarousel EXCEPT
                        !.currentIndex = (@ + 1) % Len(gameCarousel.mediaItems)]

\* GameCarousel: handlePrevImage
handlePrevImage ==
  /\ gameCarousel.mediaItems = gameCarousel.media
  /\ GameRenders /\ GameRendered
  /\ gameCarousel' =
       [gameCarousel EXCEPT
          !.currentIndex = (@ - 1 + Len(gameCarousel.mediaItems))
                             % Len(gameCarousel.mediaItems)]

\* GameCarousel: goToIndex(index), from the thumbnail of item index
goToIndex(index) ==
  /\ gameCarousel.mediaItems = gameCarousel.media
  /\ GameRenders /\ GameRendered
  /\ index \in 0..(Len(gameCarousel.mediaItems) - 1)
  /\ gameCarousel' =
       [gameCarousel EXCEPT
          !.currentIndex = IF index < 0 THEN Len(gameCarousel.mediaItems) - 1
                           ELSE IF index >= Len(gameCarousel.mediaItems) THEN 0
                           ELSE index]

\* NewsCarousel: hasData
hasData == Len(newsCarousel.carouseldata) > 0

\* The render of NewsCarousel does not throw.
NewsRendered ==
  hasData => newsCarousel.currentIndex < Len(newsCarousel.carouseldata)

\* The parent passes a new carouseldata: the component renders with it, its
\* effects are yet to run.
newsProps(list) ==
  /\ list # newsCarousel.carouseldata
  /\ ~newsCarousel.effect
  /\ NewsRendered
  /\ newsCarousel' = [newsCarousel EXCEPT !.carouseldata = list,
                                          !.effect = TRUE]

\* The effects on [carouseldata, ...], after a render that did not throw:
\* the interval is cleared and, with data, set again with the nextImage of
\* this render (interval holds the length nextImage closes over), and
\* setCurrentIndex(0).
newsEffects ==
  /\ newsCarousel.effect
  /\ NewsRendered
  /\ newsCarousel' =
       IF hasData
       THEN [newsCarousel EXCEPT !.effect = FALSE, !.currentIndex = 0,
                                 !.interval = Len(newsCarousel.carouseldata)]
       ELSE [newsCarousel EXCEPT !.effect = FALSE, !.interval = 0]

\* nextImage (handleNextImage) and the interval reset
nextImage ==
  /\ ~newsCarousel.effect
  /\ hasData /\ NewsRendered
  /\ newsCarousel' =
       [newsCarousel EXCEPT
          !.currentIndex = (@ + 1) % Len(newsCarousel.carouseldata),
          !.interval = Len(newsCarousel.carouseldata)]

\* prevImage (handlePrevImage) and the interval reset
prevImage ==
  /\ ~newsCarousel.effect
  /\ hasData /\ NewsRendered
  /\ newsCarousel' =
       [newsCarousel EXCEPT
          !.currentIndex = (@ - 1 + Len(newsCarousel.carouseldata))
                             % Len(newsCarousel.carouseldata),
          !.interval = Len(newsCarousel.carouseldata)]

\* changeImage(index), from the dot of item index
changeImage(index) ==
  /\ ~newsCarousel.effect
  /\ hasData /\ NewsRendered
  /\ index \in 0..(Len(newsCarousel.carouseldata) - 1)
  /\ newsCarousel' = [newsCarousel EXCEPT
                        !.currentIndex = index,
                        !.interval = Len(newsCarousel.carouseldata)]

\* The interval fires: the nextImage it was set with advances by the length
\* that nextImage closed over.
autoAdvance ==
  /\ newsCarousel.interval > 0
  /\ ~newsCarousel.effect
  /\ NewsRendered
  /\ newsCarousel' = [newsCarousel EXCEPT
                        !.currentIndex = (@ + 1) % newsCarousel.interval]

\* The steps of a carousel leave the stores and the other components alone.
gameFrame ==
  UNCHANGED <<comments, isLoading, error, inflight, server, call, searchVars,
              authVars, replyingTo, newsCarousel, pagination>>

newsFrame ==
  UNCHANGED <<comments, isLoading, error, inflight, server, call, searchVars,
              authVars, replyingTo, gameCarousel, pagination>>

NextCarousel ==
  \/ \E list \in ItemLists : gameProps(list) /\ gameFrame
  \/ gameEffect /\ gameFrame
  \/ handleNextImage /\ gameFrame
  \/ handlePrevImage /\ gameFrame
  \/ \E index \in 0..(MaxItems - 1) : goToIndex(index) /\ gameFrame
  \/ \E list \in ItemLists : newsProps(list) /\ newsFrame
  \/ newsEffects /\ newsFrame
  \/ nextImage /\ newsFrame
  \/ prevImage /\ newsFrame
  \/ \E index \in 0..(MaxItems - 1) : changeImage(index) /\ newsFrame
  \/ autoAdvance /\ newsFrame

SpecCarousel == Init /\ [][NextCarousel]_vars

\* C25: in every state in which a carousel renders its current item,
\* 0 <= currentIndex < number of items, after any sequence of next, previous,
\* go-to-index and auto-advance steps and after any change of the item list.
C25_IndexInRange ==
  /\ GameRenders =>
       gameCarousel.currentIndex \in 0..(Len(gameCarousel.mediaItems) - 1)
  /\ hasData =>
       newsCarousel.currentIndex \in 0..(Len(newsCarousel.carouseldata) - 1)

\* Only a change of the item list takes currentIndex out of range: next,
\* previous, go-to-index and auto-advance on an unchanged list keep it in.
C25_OnlyListChange ==
  [][(C25_IndexInRange /\ ~C25_IndexInRange')
       => \/ gameCarousel'.mediaItems # gameCarousel.mediaItems
          \/ newsCarousel'.carouseldata # newsCarousel.carouseldata]_vars

\* next from the last item wraps to 0 and previous from 0 wraps to the last
\* item.
C25_Wraps ==
  [][/\ (handleNextImage
          /\ gameCarousel.currentIndex = Len(gameCarousel.mediaItems) - 1)
         => gameCarousel'.currentIndex = 0
     /\ (handlePrevImage /\ gameCarousel.currentIndex = 0)
         => gameCarousel'.currentIndex = Len(gameCarousel.mediaItems) - 1
     /\ (nextImage
          /\ newsCarousel.currentIndex = Len(newsCarousel.carouseldata) - 1)
         => newsCarousel'.currentIndex = 0
     /\ (prevImage /\ newsCarousel.currentIndex = 0)
         => newsCarousel'.currentIndex = Len(newsCarousel.carouseldata) - 1]_vars

\* A carousel of MaxItems items shows its last item.
C25_WrapWitness ==
  /\ Len(newsCarousel.carouseldata) = MaxItems
  /\ newsCarousel.currentIndex = MaxItems - 1
  /\ Len(gameCarousel.mediaItems) = MaxItems
  /\ gameCarousel.currentIndex = MaxItems - 1

\* GameCarousel after a change to a shorter list: its effect has replaced
\* mediaItems and currentIndex is left beyond the last item.
C25_GameOutOfRange ==
  /\ GameRenders
  /\ gameCarousel.mediaItems = gameCarousel.media
  /\ gameCarousel.currentIndex >= Len(gameCarousel.mediaItems)

(***************************************************************************)
(* SpecPagination: the Pagination component under a parent that shows the  *)
(* page onPageChange reports.  The text of the page input is the sequence  *)
(* of its characters.  `call` keeps the last request: the page asked for,  *)
(* the page reported and totalPages at that moment.                        *)
(***************************************************************************)
\* The parent has at most MaxPages pages; the input holds at most
\* MaxInputLen characters.
MaxPages == 3
MaxInputLen == 2

InputChars == {"-", "0", "1", "5", "."}

InputTexts ==
  UNION {[1..n -> InputChars] : n \in 0..MaxInputLen}

Digits == <<"0", "1", "2", "3", "4", "5", "6", "7", "8", "9">>

IsDigit(char) == \E d \in 1..10 : Digits[d] = char

DigitValue(char) == (CHOOSE d \in 1..10 : Digits[d] = char) - 1

\* A number: an integer or NaN.
NaN == [isNaN |-> TRUE, value |-> 0]
Number(n) == [isNaN |-> FALSE, value |-> n]

\* The value of the longest prefix of text made of digits, after the digits
\* already read (acc); seen tells whether a digit was read.
RECURSIVE parseDigits(_, _, _)
parseDigits(text, acc, seen) ==
  IF text # <<>> /\ IsDigit(Head(text))
  THEN parseDigits(Tail(text), 10 * acc + DigitValue(Head(text)), TRUE)
  ELSE IF seen THEN Number(acc) ELSE NaN

\* parseInt(text, 10): leading white space, a sign, then digits up to the
\* first character that is not one; NaN without a digit.
parseInt(text) ==
  LET t == trimStart(text)
      negative == t # <<>> /\ Head(t) = "-"
      digits == IF t # <<>> /\ Head(t) \in {"-", "+"} THEN Tail(t) ELSE t
      number == parseDigits(digits, 0, FALSE)
  IN IF number.isNaN THEN NaN
     ELSE IF negative THEN Number(0 - number.value) ELSE number

\* n.toString() for an integer n
RECURSIVE toString(_)
toString(n) ==
  IF n < 0 THEN <<"-">> \o toString(0 - n)
  ELSE IF n < 10 THEN <<Digits[n + 1]>>
  ELSE toString(n \div 10) \o <<Digits[(n % 10) + 1]>>

\* A slip: the page is capped at totalPages, with no floor of 1.
validPage_NoFloor(pageNumber, totalPages) ==
  IF pageNumber < totalPages THEN pageNumber ELSE totalPages

\* Math.max(1, Math.min(pageNumber, totalPages))
validPage(pageNumber, totalPages) ==
  LET min == IF pageNumber < totalPages THEN pageNumber ELSE totalPages
  IN IF min > 1 THEN min ELSE 1

\* No page was reported yet, no text asked for.
NoPage == 0
NoRequest == <<>>

InitPagination ==
  /\ comments = <<>>
  /\ isLoading = FALSE
  /\ error = NoError
  /\ inflight = EmptyBag
  /\ server = [forest |-> <<>>, nextId |-> 1]
  /\ call = [op |-> "page", requested |-> NoRequest, reported |-> NoPage,
             totalPages |-> NoPage]
  /\ createSearchStore
  /\ createAuthStore
  /\ mountComponents

\* The controls are rendered: not `if (totalPages <= 1) return null`.
Rendered == pagination.totalPages > 1

\* The parent renders Pagination with other props; the effect on
\* [currentPage] sets inputPage.
pageProps(currentPage, totalPages) ==
  /\ <<currentPage, totalPages>>
       # <<pagination.currentPage, pagination.totalPages>>
  /\ pagination' =
       [currentPage |-> currentPage, totalPages |-> totalPages,
        inputPage |-> IF currentPage # pagination.currentPage
                      THEN toString(currentPage)
                      ELSE pagination.inputPage]
  /\ UNCHANGED call

\* handleInputChange: setInputPage(e.target.value)
handleInputChange(text) ==
  /\ Rendered
  /\ pagination' = [pagination EXCEPT !.inputPage = text]
  /\ UNCHANGED call

\* handlePageChange(pageNumber), asked for page `requested`; the parent shows
\* the page that onPageChange reports.
handlePageChange(pageNumber, requested) ==
  LET page == validPage(pageNumber, pagination.totalPages)
  IN /\ call' = [op |-> "page", requested |-> requested, reported |-> page,
                 totalPages |-> pagination.totalPages]
     /\ pagination' = [pagination EXCEPT !.currentPage = page,
                                         !.inputPage = toString(page)]

\* handleKeyPress with the Enter key
handleKeyPress ==
  /\ Rendered
  /\ ~parseInt(pagination.inputPage).isNaN
  /\ handlePageChange(parseInt(pagination.inputPage).value,
                      pagination.inputPage)

\* The Previous button, disabled on page 1: the page before the current one.
Previous ==
  /\ Rendered
  /\ pagination.currentPage # 1
  /\ handlePageChange(IF pagination.currentPage > 1
                      THEN pagination.currentPage - 1 ELSE 1,
                      toString(pagination.currentPage - 1))

\* The Next button, disabled on the last page: the page after the current one.
NextPage ==
  /\ Rendered
  /\ pagination.currentPage # pagination.totalPages
  /\ handlePageChange(IF pagination.currentPage < pagination.totalPages
                      THEN pagination.currentPage + 1
                      ELSE pagination.totalPages,
                      toString(pagination.currentPage + 1))

\* The steps of Pagination leave the stores and the other components alone.
pageFrame ==
  UNCHANGED <<comments, isLoading, error, inflight, server, searchVars,
              authVars, replyingTo, gameCarousel, newsCarousel>>

NextPagination ==
  \/ \E currentPage \in 0..(MaxPages + 1), totalPages \in 0..MaxPages :
       pageProps(currentPage, totalPages) /\ pageFrame
  \/ \E text \in InputTexts : handleInputChange(text) /\ pageFrame
  \/ handleKeyPress /\ pageFrame
  \/ Previous /\ pageFrame
  \/ NextPage /\ pageFrame

SpecPagination == InitPagination /\ [][NextPagination]_vars

\* The text is the decimal numeral of an integer: digits, after an optional
\* minus sign.
IsNumeral(text) ==
  LET digits == IF text # <<>> /\ Head(text) = "-" THEN Tail(text) ELSE text
  IN digits # <<>> /\ \A i \in 1..Len(digits) : IsDigit(digits[i])

\* The integer a numeral denotes.
RECURSIVE NumeralValue(_)
NumeralValue(text) ==
  IF Head(text) = "-" THEN 0 - NumeralValue(Tail(text))
  ELSE IF Len(text) = 1 THEN DigitValue(text[1])
  ELSE 10 * NumeralValue(SubSeq(text, 1, Len(text) - 1))
       + DigitValue(text[Len(text)])

Max(a, b) == IF a > b THEN a ELSE b
Min(a, b) == IF a < b THEN a ELSE b

\* C26: for every integer page requested through Previous, Next or the page
\* input followed by Enter, with totalPages >= 2, onPageChange is called with
\* max(1, min(requested, totalPages)), a page within 1..totalPages; with
\* totalPages <= 1 no control is rendered and onPageChange is never called.
C26_PageClamped ==
  /\ call.requested # NoRequest =>
       /\ call.totalPages >= 2
       /\ call.reported \in 1..call.totalPages
       /\ IsNumeral(call.requested) =>
            call.reported = Max(1, Min(NumeralValue(call.requested),
                                       call.totalPages))
  /\ (~Rendered /\ call.requested = NoRequest) => call.reported = NoPage

\* A page above totalPages was typed and Enter pressed.
C26_Witness ==
  /\ call.requested # NoRequest
  /\ IsNumeral(call.requested)
  /\ NumeralValue(call.requested) > call.totalPages
  /\ call.reported = call.totalPages

\* A page below 1 was typed and Enter pressed.
C26_WitnessBelow ==
  /\ call.requested # NoRequest
  /\ IsNumeral(call.requested)
  /\ NumeralValue(call.requested) < 1
  /\ call.reported = 1

\* With totalPages <= 1 onPageChange is not called.
C26_NotRenderedNoCall ==
  [][pagination.totalPages <= 1 => call' = call]_vars

====
